---- MODULE Spec2Model ----
(***************************************************************************)
(* Credential engine of PostgreSQLAppAuthentication: the userAuth table,   *)
(* the SECURITY DEFINER routines of docker/postgres/init.sql, the grants   *)
(* that separate authuser from the table, the AuthService wrappers and the *)
(* HTTP routes that call them.                                             *)
(*                                                                         *)
(* Every routine call is one autocommit transaction at READ COMMITTED:     *)
(* each statement of a routine reads the rows committed when the statement *)
(* starts, a write stays pending (and locks its row and its unique keys)   *)
(* until the transaction commits, and an exception undoes the call.        *)
(***************************************************************************)
EXTENDS Integers, Sequences, FiniteSets, TLC

(***************************************************************************)
(* Bounds of the model.                                                    *)
(***************************************************************************)
\* connections of the pool that run a call at the same time
Sessions == {1, 2}
\* calls kept in one history of overlapping calls
MaxCalls == 2
\* ticks of the server clock
MaxClock == 1
\* values gen_random_bytes hands out
MaxRandom == 3

\* userId values a caller supplies
UserIds == {1, 2}
\* mail values a caller supplies
Mails == {"a@x", "b@x"}
\* a mail no account starts with, for two accounts to move to
ThirdMail == "c@x"

\* Passwords are character sequences.  PwBs and PwOct differ as text and
\* decode to the same bytes; PwBad holds a backslash that starts no escape.
PwPlain == <<"x", "x", "x", "x", "x", "x">>
PwBs    == <<"x", "x", "x", "x", "\\", "\\">>
PwOct   == <<"x", "x", "x", "x", "\\", "1", "3", "4">>
PwBad   == <<"x", "x", "x", "x", "\\", "x">>
Passwords == {PwPlain, PwBs, PwOct, PwBad}
\* passwords of the calls that overlap
OverlapPasswords == {PwPlain, PwBs}

(***************************************************************************)
(* Text, bytes and the digest.                                             *)
(***************************************************************************)
HexDigits == <<"0", "1", "2", "3", "4", "5", "6", "7", "8", "9",
               "a", "b", "c", "d", "e", "f">>

\* encode(bytes, 'hex'): two hexadecimal digits for every byte
RECURSIVE EncodeHex(_)
EncodeHex(bytes) ==
    IF bytes = <<>> THEN <<>>
    ELSE <<HexDigits[(bytes[1] \div 16) + 1], HexDigits[(bytes[1] % 16) + 1]>>
         \o EncodeHex(Tail(bytes))

\* the byte of a character of the server encoding
CharByte(c) ==
    CASE c = "\\" -> 92
      [] c = "x"  -> 120
      [] c \in {"0", "1", "2", "3", "4", "5", "6", "7", "8", "9"} ->
             48 + (CHOOSE d \in 0..9 : HexDigits[d + 1] = c)
      [] OTHER    -> 87 + (CHOOSE d \in 10..15 : HexDigits[d + 1] = c)

IsOctal(c, max) == c \in {HexDigits[d + 1] : d \in 0..max}
OctalValue(c) == CHOOSE d \in 0..7 : HexDigits[d + 1] = c

\* text::bytea, the escape input format of byteain: a backslash starts
\* either "\\" (one backslash byte) or "\ooo" (the byte of three octal
\* digits, the first at most 3); any other backslash is a syntax error.
\* The text always begins with the hexadecimal salt, so the "\x" hex
\* format, which is recognised only at the start of the text, never applies.
RECURSIVE ByteaIn(_)
ByteaIn(text) ==
    IF text = <<>> THEN [ok |-> TRUE, bytes |-> <<>>]
    ELSE IF text[1] # "\\" THEN
        LET rest == ByteaIn(Tail(text))
        IN  IF rest.ok THEN [ok |-> TRUE, bytes |-> <<CharByte(text[1])>> \o rest.bytes]
            ELSE [ok |-> FALSE, bytes |-> <<>>]
    ELSE IF Len(text) >= 2 /\ text[2] = "\\" THEN
        LET rest == ByteaIn(SubSeq(text, 3, Len(text)))
        IN  IF rest.ok THEN [ok |-> TRUE, bytes |-> <<92>> \o rest.bytes]
            ELSE [ok |-> FALSE, bytes |-> <<>>]
    ELSE IF /\ Len(text) >= 4
            /\ IsOctal(text[2], 3) /\ IsOctal(text[3], 7) /\ IsOctal(text[4], 7) THEN
        LET rest == ByteaIn(SubSeq(text, 5, Len(text)))
            byte == 64 * OctalValue(text[2]) + 8 * OctalValue(text[3])
                    + OctalValue(text[4])
        IN  IF rest.ok THEN [ok |-> TRUE, bytes |-> <<byte>> \o rest.bytes]
            ELSE [ok |-> FALSE, bytes |-> <<>>]
    ELSE [ok |-> FALSE, bytes |-> <<>>]

\* encode(sha256(bytes), 'hex'): SHA-256 taken as collision free, so the
\* digest names the byte string it was computed from
Sha256Hex(bytes) == <<"sha256">> \o bytes

\* encode(sha256((v_salt || p_rawpass)::bytea), 'hex')
\* [ok, hash]: ok is FALSE when the cast raises
HashPass(salt, rawpass) ==
    LET b == ByteaIn(salt \o rawpass)
    IN  [ok |-> b.ok, hash |-> IF b.ok THEN Sha256Hex(b.bytes) ELSE <<>>]

\* encode(gen_random_bytes(32), 'hex') for the random value rnd
SaltOf(rnd) == EncodeHex(<<rnd>>)

(***************************************************************************)
(* Roles, objects and grants: the GRANT and REVOKE statements of init.sql, *)
(* applied in file order to the privileges the CREATE statements give.     *)
(***************************************************************************)
Routines == {"signup", "authenticate", "get_user_details", "delete_user",
             "change_password", "change_email", "get_all_users", "user_exists"}
AdminFunctions == {"ensure_indexes", "get_index_info", "test_index_performance",
                   "update_updated_at_column"}
TablePrivs == {"SELECT", "INSERT", "UPDATE", "DELETE"}
SequencePrivs == {"USAGE", "SELECT", "UPDATE"}

\* the role that runs the script and owns every object (POSTGRES_USER)
Owner == "postgres"
Superusers == {"postgres"}
\* the role of the application's pool
AppUser == "authuser"

\* CREATE TABLE / CREATE FUNCTION: a function is executable by PUBLIC
\* from its creation on; a table and its sequence are granted to nobody
CreatedAcl ==
    {<<"PUBLIC", f, "EXECUTE">> : f \in Routines \cup AdminFunctions}

Grant(role, obj, privs) == [stmt |-> "GRANT", role |-> role, obj |-> obj, privs |-> privs]
Revoke(role, obj, privs) == [stmt |-> "REVOKE", role |-> role, obj |-> obj, privs |-> privs]

\* the grants, were the table privileges of authuser granted and not revoked
GrantStatementsTableGranted ==
    <<Grant("postgres", "userAuth", TablePrivs),
      Grant("postgres", "userauth_userid_seq", SequencePrivs),
      Grant("authuser", "schema public", {"USAGE"}),
      Grant("authuser", "userAuth", TablePrivs),
      Revoke("authuser", "userauth_userid_seq", SequencePrivs),
      Grant("authuser", "signup", {"EXECUTE"}),
      Grant("authuser", "authenticate", {"EXECUTE"}),
      Grant("authuser", "get_user_details", {"EXECUTE"}),
      Grant("authuser", "delete_user", {"EXECUTE"}),
      Grant("authuser", "change_password", {"EXECUTE"}),
      Grant("authuser", "change_email", {"EXECUTE"}),
      Grant("authuser", "get_all_users", {"EXECUTE"}),
      Grant("authuser", "user_exists", {"EXECUTE"}),
      Grant("authuser", "ensure_indexes", {"EXECUTE"}),
      Grant("authuser", "get_index_info", {"EXECUTE"}),
      Grant("authuser", "test_index_performance", {"EXECUTE"}),
      Grant("authuser", "update_updated_at_column", {"EXECUTE"}),
      Revoke("postgres", "signup", {"EXECUTE"}),
      Revoke("postgres", "authenticate", {"EXECUTE"}),
      Revoke("postgres", "get_user_details", {"EXECUTE"}),
      Revoke("postgres", "delete_user", {"EXECUTE"}),
      Revoke("postgres", "change_password", {"EXECUTE"}),
      Revoke("postgres", "change_email", {"EXECUTE"}),
      Revoke("postgres", "get_all_users", {"EXECUTE"}),
      Revoke("postgres", "user_exists", {"EXECUTE"})>>

GrantStatements ==
    <<Grant("postgres", "userAuth", TablePrivs),
      Grant("postgres", "userauth_userid_seq", SequencePrivs),
      Grant("authuser", "schema public", {"USAGE"}),
      Revoke("authuser", "userAuth", TablePrivs),
      Revoke("authuser", "userauth_userid_seq", SequencePrivs),
      Grant("authuser", "signup", {"EXECUTE"}),
      Grant("authuser", "authenticate", {"EXECUTE"}),
      Grant("authuser", "get_user_details", {"EXECUTE"}),
      Grant("authuser", "delete_user", {"EXECUTE"}),
      Grant("authuser", "change_password", {"EXECUTE"}),
      Grant("authuser", "change_email", {"EXECUTE"}),
      Grant("authuser", "get_all_users", {"EXECUTE"}),
      Grant("authuser", "user_exists", {"EXECUTE"}),
      Grant("authuser", "ensure_indexes", {"EXECUTE"}),
      Grant("authuser", "get_index_info", {"EXECUTE"}),
      Grant("authuser", "test_index_performance", {"EXECUTE"}),
      Grant("authuser", "update_updated_at_column", {"EXECUTE"}),
      Revoke("postgres", "signup", {"EXECUTE"}),
      Revoke("postgres", "authenticate", {"EXECUTE"}),
      Revoke("postgres", "get_user_details", {"EXECUTE"}),
      Revoke("postgres", "delete_user", {"EXECUTE"}),
      Revoke("postgres", "change_password", {"EXECUTE"}),
      Revoke("postgres", "change_email", {"EXECUTE"}),
      Revoke("postgres", "get_all_users", {"EXECUTE"}),
      Revoke("postgres", "user_exists", {"EXECUTE"})>>

RECURSIVE ApplyGrants(_, _)
ApplyGrants(acl, stmts) ==
    IF stmts = <<>> THEN acl
    ELSE LET st == Head(stmts)
             entries == {<<st.role, st.obj, p>> : p \in st.privs}
         IN  ApplyGrants(IF st.stmt = "GRANT" THEN acl \cup entries
                         ELSE acl \ entries,
                         Tail(stmts))

\* the privileges in force once init.sql has run
Acl == ApplyGrants(CreatedAcl, GrantStatements)

\* the routines declared SECURITY DEFINER
SecurityDefiner == Routines \cup {"ensure_indexes", "get_index_info",
                                  "test_index_performance"}

HasPrivilege(role, obj, priv) ==
    \/ role \in Superusers
    \/ role = Owner
    \/ <<role, obj, priv>> \in Acl
    \/ <<"PUBLIC", obj, priv>> \in Acl

\* the role whose privileges the statements of routine fn are checked with
RunsAs(fn) == IF fn \in SecurityDefiner THEN Owner ELSE AppUser

\* may a statement of routine fn use the table with privilege priv
TableAccess(fn, priv) == HasPrivilege(RunsAs(fn), "userAuth", priv)

(***************************************************************************)
(* The userAuth table.  A row carries, next to its six columns, one        *)
(* history field the code does not store: rawpass, the password its salt   *)
(* and hashpass were last written for.                                     *)
(***************************************************************************)
NoRow == [userId |-> 0, mail |-> "", salt |-> <<>>, hashpass |-> <<>>,
          created_at |-> 0, updated_at |-> 0, rawpass |-> <<>>]

\* SELECT ... FROM userAuth WHERE mail = p_mail
RowsByMail(rows, mail) == {r \in rows : r.mail = mail}

\* SELECT ... INTO: the row found, NoRow when NOT FOUND (mail is UNIQUE)
SelectByMail(rows, mail) ==
    IF RowsByMail(rows, mail) = {} THEN NoRow
    ELSE CHOOSE r \in RowsByMail(rows, mail) : TRUE

\* the columns, were the salt returned with them
PublicRowWithSalt(r) == [user_id |-> r.userId, email |-> r.mail,
                         created_at |-> r.created_at, updated_at |-> r.updated_at,
                         salt |-> r.salt]

\* the columns get_user_details and get_all_users return
PublicRow(r) == [user_id |-> r.userId, email |-> r.mail,
                 created_at |-> r.created_at, updated_at |-> r.updated_at]

\* ORDER BY ua.userId
RECURSIVE OrderByUserId(_)
OrderByUserId(rows) ==
    IF rows = {} THEN <<>>
    ELSE LET first == CHOOSE r \in rows : \A q \in rows : r.userId <= q.userId
         IN  <<PublicRow(first)>> \o OrderByUserId(rows \ {first})

(***************************************************************************)
(* A call: one request, from the route handler to the committed routine.   *)
(***************************************************************************)
DirectQueries == {"direct_select", "direct_insert", "direct_update",
                  "direct_delete", "direct_nextval"}

NoWrite == [kind |-> "none", key |-> 0, row |-> NoRow]
Pending == [kind |-> "pending", message |-> <<>>, code |-> "", rows |-> <<>>]
ReturnsTrue == [kind |-> "true", message |-> <<>>, code |-> "", rows |-> <<>>]
ReturnsFalse == [kind |-> "false", message |-> <<>>, code |-> "", rows |-> <<>>]
ReturnsRows(rs) == [kind |-> "rows", message |-> <<>>, code |-> "", rows |-> rs]
Raised(message, code) == [kind |-> "error", message |-> message, code |-> code,
                          rows |-> <<>>]
Invalid(message) == [kind |-> "invalid", message |-> message, code |-> "",
                     rows |-> <<>>]

NewCall(sid, op, uid, mail, newmail, pass, newpass, now) ==
    [sid |-> sid, op |-> op, uid |-> uid, mail |-> mail, newmail |-> newmail,
     pass |-> pass, newpass |-> newpass, now |-> now, rnd |-> -1,
     pc |-> "start", v_salt |-> <<>>, v_hashpass |-> <<>>,
     v_stored_hash |-> <<>>, v_new_salt |-> <<>>, v_new_hash |-> <<>>,
     wr |-> NoWrite, out |-> Pending, seen |-> NoRow, wrote |-> "none"]

\* the call has returned: its local variables are gone
Return(c, out) ==
    [c EXCEPT !.pc = "done", !.out = out, !.wr = NoWrite,
              !.v_salt = <<>>, !.v_hashpass = <<>>, !.v_stored_hash = <<>>,
              !.v_new_salt = <<>>, !.v_new_hash = <<>>]

\* RAISE EXCEPTION: SQLSTATE P0001
RaiseException(c, message) == Return(c, Raised(message, "P0001"))

\* EXCEPTION WHEN OTHERS THEN RAISE EXCEPTION '<prefix>%', SQLERRM
HandlerPrefix(op) ==
    CASE op = "signup" -> <<"Error during signup: ">>
      [] op = "authenticate" -> <<"Error during authentication: ">>
      [] op = "delete_user" -> <<"Error during user deletion: ">>
      [] op = "change_password" -> <<"Error during password change: ">>
      [] op = "change_email" -> <<"Error during email change: ">>
      [] OTHER -> <<>>

\* an error raised inside the routine's block: the block's writes are undone
\* and the handler raises the wrapped message
Caught(c, sqlerrm) == RaiseException(c, HandlerPrefix(c.op) \o sqlerrm)

PermissionDeniedTable == <<"permission denied for table userauth">>
PermissionDeniedSequence == <<"permission denied for sequence userauth_userid_seq">>
PermissionDeniedFunction(fn) == <<"permission denied for function ", fn>>
ByteaSyntax == <<"invalid input syntax for type bytea">>
DuplicateKey(constraint) ==
    <<"duplicate key value violates unique constraint \"", constraint, "\"">>

\* the statement needs a privilege the role running routine c.op lacks
Denied(c) ==
    IF HandlerPrefix(c.op) = <<>> THEN Return(c, Raised(PermissionDeniedTable, "42501"))
    ELSE Caught(c, PermissionDeniedTable)

\* the two ways the store can fail a query: the pool cannot connect, and
\* the server cannot read the table
StoreFaults == {"connect", "io"}
ConnectionRefused == <<"connect ECONNREFUSED">>
IoError == <<"could not read block of relation userauth: Input/output error">>

(***************************************************************************)
(* Row locks and unique keys.  pend is the set of writes other calls have  *)
(* made and not yet committed.                                             *)
(***************************************************************************)
\* the lock, were it taken on the whole table by every write
RowLockedTable(pend, key) == pend # {}

\* the row with primary key key is being updated or deleted by another call
RowLocked(pend, key) ==
    \E w \in pend : w.kind \in {"update", "delete"} /\ w.key = key

\* the wait, were it also for a key a committed row holds
KeyBusyCommitted(pend, rows, uids, mails) ==
    \/ \E r \in rows : r.userId \in uids \/ r.mail \in mails
    \/ \E w \in pend :
          \/ /\ w.kind \in {"insert", "update"}
             /\ (w.row.userId \in uids \/ w.row.mail \in mails)
          \/ /\ w.kind \in {"update", "delete"}
             /\ \E r \in rows : /\ r.userId = w.key
                                /\ (r.userId \in uids \/ r.mail \in mails)

\* another call's uncommitted write holds one of the keys: a unique index
\* makes the statement wait for that call
KeyBusy(pend, rows, uids, mails) ==
    \E w \in pend :
        \/ /\ w.kind \in {"insert", "update"}
           /\ (w.row.userId \in uids \/ w.row.mail \in mails)
        \/ /\ w.kind \in {"update", "delete"}
           /\ \E r \in rows : /\ r.userId = w.key
                              /\ (r.userId \in uids \/ r.mail \in mails)

(***************************************************************************)
(* signup(p_userId, p_mail, p_rawpass)                                     *)
(***************************************************************************)
\* signup, were the password hashed without the salt
SignupCheckUnsalted(c, rows, rnd) ==
    LET v_user_exists == Cardinality(RowsByMail(rows, c.mail))
        v_salt == SaltOf(rnd)
        v_hashpass == HashPass(<<>>, c.pass)
        found == [c EXCEPT !.seen = SelectByMail(rows, c.mail)]
    IN  IF ~TableAccess("signup", "SELECT") THEN Denied(c)
        ELSE IF v_user_exists > 0
        THEN Caught(found, <<"User with email ", c.mail, " already exists">>)
        ELSE IF ~v_hashpass.ok THEN Caught([c EXCEPT !.rnd = rnd], ByteaSyntax)
        ELSE [c EXCEPT !.pc = "write", !.rnd = rnd, !.v_salt = v_salt,
                       !.v_hashpass = v_hashpass.hash]

\* signup, were one row with the mail not enough for "already exists"
SignupCheckMiscount(c, rows, rnd) ==
    LET v_user_exists == Cardinality(RowsByMail(rows, c.mail))
        v_salt == SaltOf(rnd)
        v_hashpass == HashPass(v_salt, c.pass)
        found == [c EXCEPT !.seen = SelectByMail(rows, c.mail)]
    IN  IF ~TableAccess("signup", "SELECT") THEN Denied(c)
        ELSE IF v_user_exists > 1
        THEN Caught(found, <<"User with email ", c.mail, " already exists">>)
        ELSE IF ~v_hashpass.ok THEN Caught([c EXCEPT !.rnd = rnd], ByteaSyntax)
        ELSE [c EXCEPT !.pc = "write", !.rnd = rnd, !.v_salt = v_salt,
                       !.v_hashpass = v_hashpass.hash]

\* the existence check, the salt and the hash; rnd is what
\* gen_random_bytes returns
SignupCheck(c, rows, rnd) ==
    LET v_user_exists == Cardinality(RowsByMail(rows, c.mail))
        v_salt == SaltOf(rnd)
        v_hashpass == HashPass(v_salt, c.pass)
        found == [c EXCEPT !.seen = SelectByMail(rows, c.mail)]
    IN  IF ~TableAccess("signup", "SELECT") THEN Denied(c)
        ELSE IF v_user_exists > 0
        THEN Caught(found, <<"User with email ", c.mail, " already exists">>)
        ELSE IF ~v_hashpass.ok THEN Caught([c EXCEPT !.rnd = rnd], ByteaSyntax)
        ELSE [c EXCEPT !.pc = "write", !.rnd = rnd, !.v_salt = v_salt,
                       !.v_hashpass = v_hashpass.hash]

\* the INSERT, were userId not the PRIMARY KEY
SignupInsertNoPrimaryKey(c, rows) ==
    IF ~TableAccess("signup", "INSERT") THEN Denied(c)
    ELSE IF FALSE
    THEN Caught(c, DuplicateKey("userauth_pkey"))
    ELSE IF \E r \in rows : r.mail = c.mail
    THEN Caught(c, DuplicateKey("userauth_mail_key"))
    ELSE [c EXCEPT !.pc = "commit", !.out = ReturnsTrue,
                   !.wr = [kind |-> "insert", key |-> c.uid,
                           row |-> [userId |-> c.uid, mail |-> c.mail,
                                    salt |-> c.v_salt, hashpass |-> c.v_hashpass,
                                    created_at |-> c.now, updated_at |-> c.now,
                                    rawpass |-> c.pass]]]

\* the INSERT, were mail not UNIQUE
SignupInsertNoUnique(c, rows) ==
    IF ~TableAccess("signup", "INSERT") THEN Denied(c)
    ELSE IF \E r \in rows : r.userId = c.uid
    THEN Caught(c, DuplicateKey("userauth_pkey"))
    ELSE IF FALSE
    THEN Caught(c, DuplicateKey("userauth_mail_key"))
    ELSE [c EXCEPT !.pc = "commit", !.out = ReturnsTrue,
                   !.wr = [kind |-> "insert", key |-> c.uid,
                           row |-> [userId |-> c.uid, mail |-> c.mail,
                                    salt |-> c.v_salt, hashpass |-> c.v_hashpass,
                                    created_at |-> c.now, updated_at |-> c.now,
                                    rawpass |-> c.pass]]]

\* INSERT INTO userAuth: userId is the primary key, mail is UNIQUE,
\* created_at and updated_at default to CURRENT_TIMESTAMP
SignupInsert(c, rows) ==
    IF ~TableAccess("signup", "INSERT") THEN Denied(c)
    ELSE IF \E r \in rows : r.userId = c.uid
    THEN Caught(c, DuplicateKey("userauth_pkey"))
    ELSE IF \E r \in rows : r.mail = c.mail
    THEN Caught(c, DuplicateKey("userauth_mail_key"))
    ELSE [c EXCEPT !.pc = "commit", !.out = ReturnsTrue,
                   !.wr = [kind |-> "insert", key |-> c.uid,
                           row |-> [userId |-> c.uid, mail |-> c.mail,
                                    salt |-> c.v_salt, hashpass |-> c.v_hashpass,
                                    created_at |-> c.now, updated_at |-> c.now,
                                    rawpass |-> c.pass]]]

SignupBlocked(c, rows, pend) == KeyBusy(pend, rows, {c.uid}, {c.mail})

(***************************************************************************)
(* authenticate(p_mail, p_rawpass)                                         *)
(***************************************************************************)
\* authenticate, were an accepted login recorded in the row's updated_at
AuthenticateTouches(c, rows) ==
    LET row == SelectByMail(rows, c.mail)
        v_computed_hash == HashPass(row.salt, c.pass)
        found == [c EXCEPT !.seen = row]
    IN  IF ~TableAccess("authenticate", "SELECT") THEN Denied(c)
        ELSE IF row = NoRow THEN Return(c, ReturnsFalse)
        ELSE IF ~v_computed_hash.ok THEN Caught(found, ByteaSyntax)
        ELSE IF v_computed_hash.hash = row.hashpass
        THEN [found EXCEPT !.pc = "commit", !.out = ReturnsTrue,
                           !.wr = [kind |-> "update", key |-> row.userId,
                                   row |-> [row EXCEPT !.updated_at = c.now]]]
        ELSE Return(found, ReturnsFalse)

Authenticate(c, rows) ==
    LET row == SelectByMail(rows, c.mail)
        v_computed_hash == HashPass(row.salt, c.pass)
        found == [c EXCEPT !.seen = row]
    IN  IF ~TableAccess("authenticate", "SELECT") THEN Denied(c)
        ELSE IF row = NoRow THEN Return(c, ReturnsFalse)
        ELSE IF ~v_computed_hash.ok THEN Caught(found, ByteaSyntax)
        ELSE IF v_computed_hash.hash = row.hashpass THEN Return(found, ReturnsTrue)
        ELSE Return(found, ReturnsFalse)

(***************************************************************************)
(* get_user_details, get_all_users, user_exists                            *)
(***************************************************************************)
GetUserDetails(c, rows) ==
    IF ~TableAccess("get_user_details", "SELECT") THEN Denied(c)
    ELSE Return([c EXCEPT !.seen = SelectByMail(rows, c.mail)],
                ReturnsRows(OrderByUserId(RowsByMail(rows, c.mail))))

GetAllUsers(c, rows) ==
    IF ~TableAccess("get_all_users", "SELECT") THEN Denied(c)
    ELSE Return(c, ReturnsRows(OrderByUserId(rows)))

\* user_exists, were the mail not compared
UserExistsAnyRow(c, rows) ==
    IF ~TableAccess("user_exists", "SELECT") THEN Denied(c)
    ELSE IF rows # {}
    THEN Return([c EXCEPT !.seen = SelectByMail(rows, c.mail)], ReturnsTrue)
    ELSE Return(c, ReturnsFalse)

UserExists(c, rows) ==
    IF ~TableAccess("user_exists", "SELECT") THEN Denied(c)
    ELSE IF \E r \in rows : r.mail = c.mail
    THEN Return([c EXCEPT !.seen = SelectByMail(rows, c.mail)], ReturnsTrue)
    ELSE Return(c, ReturnsFalse)

(***************************************************************************)
(* delete_user(p_mail)                                                     *)
(***************************************************************************)
\* delete_user, were the missing account not raised
DeleteCheckNoRaise(c, rows) ==
    LET v_user_exists == Cardinality(RowsByMail(rows, c.mail))
    IN  IF ~TableAccess("delete_user", "SELECT") THEN Denied(c)
        ELSE IF v_user_exists < 0
        THEN Caught(c, <<"User with email ", c.mail, " does not exist">>)
        ELSE [c EXCEPT !.pc = "write", !.seen = SelectByMail(rows, c.mail)]

DeleteCheck(c, rows) ==
    LET v_user_exists == Cardinality(RowsByMail(rows, c.mail))
    IN  IF ~TableAccess("delete_user", "SELECT") THEN Denied(c)
        ELSE IF v_user_exists = 0
        THEN Caught(c, <<"User with email ", c.mail, " does not exist">>)
        ELSE [c EXCEPT !.pc = "write", !.seen = SelectByMail(rows, c.mail)]

\* the DELETE, were the row left in the table
DeleteDeleteKeepsRow(c, rows) ==
    LET target == SelectByMail(rows, c.mail)
        v_deleted_count == Cardinality(RowsByMail(rows, c.mail))
    IN  IF ~TableAccess("delete_user", "DELETE") THEN Denied(c)
        ELSE IF v_deleted_count > 0
        THEN [c EXCEPT !.pc = "commit", !.out = ReturnsTrue,
                       !.wr = [kind |-> "none", key |-> target.userId,
                               row |-> NoRow]]
        ELSE Return(c, ReturnsFalse)

\* the DELETE, were TRUE returned whatever ROW_COUNT is
DeleteDeleteIgnoresCount(c, rows) ==
    LET target == SelectByMail(rows, c.mail)
        v_deleted_count == Cardinality(RowsByMail(rows, c.mail))
    IN  IF ~TableAccess("delete_user", "DELETE") THEN Denied(c)
        ELSE IF v_deleted_count > 0
        THEN [c EXCEPT !.pc = "commit", !.out = ReturnsTrue,
                       !.wr = [kind |-> "delete", key |-> target.userId,
                               row |-> NoRow]]
        ELSE Return(c, ReturnsTrue)

\* DELETE FROM userAuth WHERE mail = p_mail; ROW_COUNT decides the result
DeleteDelete(c, rows) ==
    LET target == SelectByMail(rows, c.mail)
        v_deleted_count == Cardinality(RowsByMail(rows, c.mail))
    IN  IF ~TableAccess("delete_user", "DELETE") THEN Denied(c)
        ELSE IF v_deleted_count > 0
        THEN [c EXCEPT !.pc = "commit", !.out = ReturnsTrue,
                       !.wr = [kind |-> "delete", key |-> target.userId,
                               row |-> NoRow]]
        ELSE Return(c, ReturnsFalse)

DeleteBlocked(c, rows, pend) ==
    RowLocked(pend, SelectByMail(rows, c.mail).userId)

(***************************************************************************)
(* change_password(p_mail, p_old_password, p_new_password)                 *)
(***************************************************************************)
\* change_password, were the rejected password put in the message
ChangePasswordSelectEchoes(c, rows, rnd) ==
    LET row == SelectByMail(rows, c.mail)
        v_computed_hash == HashPass(row.salt, c.pass)
        v_new_salt == SaltOf(rnd)
        v_new_hash == HashPass(v_new_salt, c.newpass)
        found == [c EXCEPT !.seen = row]
    IN  IF ~TableAccess("change_password", "SELECT") THEN Denied(c)
        ELSE IF row = NoRow
        THEN Caught(c, <<"User with email ", c.mail, " does not exist">>)
        ELSE IF ~v_computed_hash.ok THEN Caught(found, ByteaSyntax)
        ELSE IF v_computed_hash.hash # row.hashpass
        THEN Caught(found, <<"Invalid old password for user ", c.mail>> \o c.pass)
        ELSE IF ~v_new_hash.ok THEN Caught([found EXCEPT !.rnd = rnd], ByteaSyntax)
        ELSE [found EXCEPT !.pc = "write", !.rnd = rnd,
                           !.v_salt = row.salt, !.v_stored_hash = row.hashpass,
                           !.v_new_salt = v_new_salt, !.v_new_hash = v_new_hash.hash]

\* change_password, were the new hash salted with the old salt
ChangePasswordSelectOldSalt(c, rows, rnd) ==
    LET row == SelectByMail(rows, c.mail)
        v_computed_hash == HashPass(row.salt, c.pass)
        v_new_salt == row.salt
        v_new_hash == HashPass(v_new_salt, c.newpass)
        found == [c EXCEPT !.seen = row]
    IN  IF ~TableAccess("change_password", "SELECT") THEN Denied(c)
        ELSE IF row = NoRow
        THEN Caught(c, <<"User with email ", c.mail, " does not exist">>)
        ELSE IF ~v_computed_hash.ok THEN Caught(found, ByteaSyntax)
        ELSE IF v_computed_hash.hash # row.hashpass
        THEN Caught(found, <<"Invalid old password for user ", c.mail>>)
        ELSE IF ~v_new_hash.ok THEN Caught([found EXCEPT !.rnd = rnd], ByteaSyntax)
        ELSE [found EXCEPT !.pc = "write", !.rnd = rnd,
                           !.v_salt = row.salt, !.v_stored_hash = row.hashpass,
                           !.v_new_salt = v_new_salt, !.v_new_hash = v_new_hash.hash]

\* the lookup, the check of the old password, the new salt and hash
ChangePasswordSelect(c, rows, rnd) ==
    LET row == SelectByMail(rows, c.mail)
        v_computed_hash == HashPass(row.salt, c.pass)
        v_new_salt == SaltOf(rnd)
        v_new_hash == HashPass(v_new_salt, c.newpass)
        found == [c EXCEPT !.seen = row]
    IN  IF ~TableAccess("change_password", "SELECT") THEN Denied(c)
        ELSE IF row = NoRow
        THEN Caught(c, <<"User with email ", c.mail, " does not exist">>)
        ELSE IF ~v_computed_hash.ok THEN Caught(found, ByteaSyntax)
        ELSE IF v_computed_hash.hash # row.hashpass
        THEN Caught(found, <<"Invalid old password for user ", c.mail>>)
        ELSE IF ~v_new_hash.ok THEN Caught([found EXCEPT !.rnd = rnd], ByteaSyntax)
        ELSE [found EXCEPT !.pc = "write", !.rnd = rnd,
                           !.v_salt = row.salt, !.v_stored_hash = row.hashpass,
                           !.v_new_salt = v_new_salt, !.v_new_hash = v_new_hash.hash]

\* the UPDATE, were there no trigger on the table
ChangePasswordUpdateNoTrigger(c, rows) ==
    LET target == SelectByMail(rows, c.mail)
        v_updated_count == Cardinality(RowsByMail(rows, c.mail))
    IN  IF ~TableAccess("change_password", "UPDATE") THEN Denied(c)
        ELSE IF v_updated_count > 0
        THEN [c EXCEPT !.pc = "commit", !.out = ReturnsTrue,
                       !.wr = [kind |-> "update", key |-> target.userId,
                               row |-> [target EXCEPT !.salt = c.v_new_salt,
                                                      !.hashpass = c.v_new_hash,
                                                      !.rawpass = c.newpass]]]
        ELSE Return(c, ReturnsFalse)

\* the UPDATE, were the salt left as it was
ChangePasswordUpdateKeepSalt(c, rows) ==
    LET target == SelectByMail(rows, c.mail)
        v_updated_count == Cardinality(RowsByMail(rows, c.mail))
    IN  IF ~TableAccess("change_password", "UPDATE") THEN Denied(c)
        ELSE IF v_updated_count > 0
        THEN [c EXCEPT !.pc = "commit", !.out = ReturnsTrue,
                       !.wr = [kind |-> "update", key |-> target.userId,
                               row |-> [target EXCEPT
                                                      !.hashpass = c.v_new_hash,
                                                      !.updated_at = c.now,
                                                      !.rawpass = c.newpass]]]
        ELSE Return(c, ReturnsFalse)

\* UPDATE userAuth SET salt, hashpass WHERE mail = p_mail; the trigger sets
\* updated_at to CURRENT_TIMESTAMP; ROW_COUNT decides the result
ChangePasswordUpdate(c, rows) ==
    LET target == SelectByMail(rows, c.mail)
        v_updated_count == Cardinality(RowsByMail(rows, c.mail))
    IN  IF ~TableAccess("change_password", "UPDATE") THEN Denied(c)
        ELSE IF v_updated_count > 0
        THEN [c EXCEPT !.pc = "commit", !.out = ReturnsTrue,
                       !.wr = [kind |-> "update", key |-> target.userId,
                               row |-> [target EXCEPT !.salt = c.v_new_salt,
                                                      !.hashpass = c.v_new_hash,
                                                      !.updated_at = c.now,
                                                      !.rawpass = c.newpass]]]
        ELSE Return(c, ReturnsFalse)

ChangePasswordBlocked(c, rows, pend) ==
    RowLocked(pend, SelectByMail(rows, c.mail).userId)

(***************************************************************************)
(* change_email(p_old_mail, p_new_mail, p_password)                        *)
(***************************************************************************)
\* the lookup of the old mail
ChangeEmailSelect(c, rows) ==
    LET row == SelectByMail(rows, c.mail)
    IN  IF ~TableAccess("change_email", "SELECT") THEN Denied(c)
        ELSE IF row = NoRow
        THEN Caught(c, <<"User with email ", c.mail, " does not exist">>)
        ELSE [c EXCEPT !.pc = "count", !.seen = row,
                       !.v_salt = row.salt, !.v_stored_hash = row.hashpass]

\* the count, were one row with the new mail not enough for "in use"
ChangeEmailCountMiscount(c, rows) ==
    LET v_new_email_exists == Cardinality(RowsByMail(rows, c.newmail))
        v_computed_hash == HashPass(c.v_salt, c.pass)
    IN  IF ~TableAccess("change_email", "SELECT") THEN Denied(c)
        ELSE IF v_new_email_exists > 1
        THEN Caught(c, <<"Email ", c.newmail, " is already in use">>)
        ELSE IF ~v_computed_hash.ok THEN Caught(c, ByteaSyntax)
        ELSE IF v_computed_hash.hash # c.v_stored_hash
        THEN Caught(c, <<"Invalid password for user ", c.mail>>)
        ELSE [c EXCEPT !.pc = "write"]

\* the count of the new mail, then the check of the password
ChangeEmailCount(c, rows) ==
    LET v_new_email_exists == Cardinality(RowsByMail(rows, c.newmail))
        v_computed_hash == HashPass(c.v_salt, c.pass)
    IN  IF ~TableAccess("change_email", "SELECT") THEN Denied(c)
        ELSE IF v_new_email_exists > 0
        THEN Caught(c, <<"Email ", c.newmail, " is already in use">>)
        ELSE IF ~v_computed_hash.ok THEN Caught(c, ByteaSyntax)
        ELSE IF v_computed_hash.hash # c.v_stored_hash
        THEN Caught(c, <<"Invalid password for user ", c.mail>>)
        ELSE [c EXCEPT !.pc = "write"]

\* the UPDATE, were the salt cleared with it
ChangeEmailUpdateClearsSalt(c, rows) ==
    LET target == SelectByMail(rows, c.mail)
        v_updated_count == Cardinality(RowsByMail(rows, c.mail))
    IN  IF ~TableAccess("change_email", "UPDATE") THEN Denied(c)
        ELSE IF v_updated_count = 0 THEN Return(c, ReturnsFalse)
        ELSE IF \E r \in rows : r.mail = c.newmail /\ r.userId # target.userId
        THEN Caught(c, DuplicateKey("userauth_mail_key"))
        ELSE [c EXCEPT !.pc = "commit", !.out = ReturnsTrue,
                       !.wr = [kind |-> "update", key |-> target.userId,
                               row |-> [target EXCEPT !.mail = c.newmail, !.salt = <<>>,
                                                      !.updated_at = c.now]]]

\* the UPDATE, were created_at set with it
ChangeEmailUpdateNewCreated(c, rows) ==
    LET target == SelectByMail(rows, c.mail)
        v_updated_count == Cardinality(RowsByMail(rows, c.mail))
    IN  IF ~TableAccess("change_email", "UPDATE") THEN Denied(c)
        ELSE IF v_updated_count = 0 THEN Return(c, ReturnsFalse)
        ELSE IF \E r \in rows : r.mail = c.newmail /\ r.userId # target.userId
        THEN Caught(c, DuplicateKey("userauth_mail_key"))
        ELSE [c EXCEPT !.pc = "commit", !.out = ReturnsTrue,
                       !.wr = [kind |-> "update", key |-> target.userId,
                               row |-> [target EXCEPT !.mail = c.newmail,
                                                      !.created_at = c.now,
                                                      !.updated_at = c.now]]]

\* UPDATE userAuth SET mail = p_new_mail WHERE mail = p_old_mail
ChangeEmailUpdate(c, rows) ==
    LET target == SelectByMail(rows, c.mail)
        v_updated_count == Cardinality(RowsByMail(rows, c.mail))
    IN  IF ~TableAccess("change_email", "UPDATE") THEN Denied(c)
        ELSE IF v_updated_count = 0 THEN Return(c, ReturnsFalse)
        ELSE IF \E r \in rows : r.mail = c.newmail /\ r.userId # target.userId
        THEN Caught(c, DuplicateKey("userauth_mail_key"))
        ELSE [c EXCEPT !.pc = "commit", !.out = ReturnsTrue,
                       !.wr = [kind |-> "update", key |-> target.userId,
                               row |-> [target EXCEPT !.mail = c.newmail,
                                                      !.updated_at = c.now]]]

ChangeEmailBlocked(c, rows, pend) ==
    LET target == SelectByMail(rows, c.mail)
    IN  \/ RowLocked(pend, target.userId)
        \/ /\ target # NoRow
           /\ KeyBusy({w \in pend : w.key # target.userId}, rows, {}, {c.newmail})

(***************************************************************************)
(* Statements a client connected as authuser sends straight at the table   *)
(* or its sequence (scripts/final-security-verification.js).               *)
(***************************************************************************)
HackerId == 9999
\* the mail the script's UPDATE and DELETE name
ScriptMail == "john.doe@example.com"
DirectPrivilege(op) ==
    CASE op = "direct_select" -> "SELECT"
      [] op = "direct_insert" -> "INSERT"
      [] op = "direct_update" -> "UPDATE"
      [] op = "direct_delete" -> "DELETE"
      [] OTHER -> "USAGE"

DirectQuery(c, rows) ==
    LET target == SelectByMail(rows, c.mail)
    IN  IF c.op = "direct_nextval"
        THEN IF HasPrivilege(AppUser, "userauth_userid_seq", "USAGE")
             THEN Return(c, ReturnsRows(<<>>))
             ELSE Return(c, Raised(PermissionDeniedSequence, "42501"))
        ELSE IF ~HasPrivilege(AppUser, "userAuth", DirectPrivilege(c.op))
        THEN Return(c, Raised(PermissionDeniedTable, "42501"))
        ELSE IF c.op = "direct_select"
        THEN Return(c, ReturnsRows(OrderByUserId(rows)))
        ELSE IF c.op = "direct_insert"
        THEN IF \E r \in rows : r.userId = HackerId \/ r.mail = "hacker@test.com"
             THEN Return(c, Raised(DuplicateKey("userauth_pkey"), "23505"))
             ELSE [c EXCEPT !.pc = "commit", !.out = ReturnsTrue,
                            !.wr = [kind |-> "insert", key |-> HackerId,
                                    row |-> [userId |-> HackerId,
                                             mail |-> "hacker@test.com",
                                             salt |-> <<"salt">>,
                                             hashpass |-> <<"hash">>,
                                             created_at |-> c.now,
                                             updated_at |-> c.now,
                                             rawpass |-> <<>>]]]
        ELSE IF target = NoRow THEN Return(c, ReturnsTrue)
        ELSE IF c.op = "direct_update"
        THEN [c EXCEPT !.pc = "commit", !.out = ReturnsTrue,
                       !.wr = [kind |-> "update", key |-> target.userId,
                               row |-> [target EXCEPT !.mail = "hacked@test.com",
                                                      !.updated_at = c.now]]]
        ELSE [c EXCEPT !.pc = "commit", !.out = ReturnsTrue,
                       !.wr = [kind |-> "delete", key |-> target.userId,
                               row |-> NoRow]]

(***************************************************************************)
(* The queries of the server's own endpoints (server.js), sent as authuser. *)
(***************************************************************************)
ServerRoutes == {"health", "indexes"}

\* GET /health: testConnection runs SELECT NOW(); GET /indexes: SELECT
\* COUNT(*) FROM userAuth WHERE mail = 'john.doe@example.com'
ServerQuery(c, rows) ==
    IF c.op = "health" THEN Return(c, ReturnsTrue)
    ELSE IF ~HasPrivilege(AppUser, "userAuth", "SELECT")
    THEN Return(c, Raised(PermissionDeniedTable, "42501"))
    ELSE Return(c, ReturnsRows(OrderByUserId(RowsByMail(rows, ScriptMail))))

\* what the query of a request of the application is sent at: the routine
\* it calls, or the relation it names, "" when it names none
QueryTarget(op) ==
    CASE op \in Routines -> [kind |-> "call", name |-> op]
      [] op = "indexes" -> [kind |-> "select", name |-> "userAuth"]
      [] OTHER -> [kind |-> "select", name |-> ""]

(***************************************************************************)
(* AuthService: the result object each method resolves to.  keys is the    *)
(* set of properties the object has; a property outside keys is absent.    *)
(***************************************************************************)
ResultObject(keys, success, message, error, c, rows) ==
    [keys |-> keys, success |-> success, message |-> message, error |-> error,
     userId |-> IF "userId" \in keys THEN c.uid ELSE 0,
     email |-> IF "email" \in keys THEN c.mail ELSE "",
     oldEmail |-> IF "oldEmail" \in keys THEN c.mail ELSE "",
     newEmail |-> IF "newEmail" \in keys THEN c.newmail ELSE "",
     exists |-> "exists" \in keys /\ c.out.kind = "true",
     rows |-> rows]

\* the catch, were the error thrown on to the caller: no object is returned
CatchResultRethrown(c) == ResultObject({}, FALSE, c.out.message, c.out.code, c, <<>>)

\* catch (error): { success: false, message: error.message, error: error.code }
CatchResult(c) ==
    ResultObject({"success", "message", "error"}, FALSE, c.out.message,
                 c.out.code, c, <<>>)

SuccessMessage(op) ==
    CASE op = "signup" -> <<"User signed up successfully">>
      [] op = "authenticate" -> <<"Authentication successful">>
      [] op = "delete_user" -> <<"User deleted successfully">>
      [] op = "change_password" -> <<"Password changed successfully">>
      [] op = "change_email" -> <<"Email changed successfully">>
      [] OTHER -> <<>>

FailureMessage(op) ==
    CASE op = "signup" -> <<"Signup failed">>
      [] op = "authenticate" -> <<"Invalid credentials">>
      [] op = "delete_user" -> <<"User deletion failed">>
      [] op = "change_password" -> <<"Password change failed">>
      [] op = "change_email" -> <<"Email change failed">>
      [] op = "get_user_details" -> <<"User not found">>
      [] OTHER -> <<>>

SuccessKeys(op) ==
    CASE op = "signup" -> {"success", "message", "userId", "email"}
      [] op = "change_email" -> {"success", "message", "oldEmail", "newEmail"}
      [] OTHER -> {"success", "message", "email"}

\* the object AuthService returns for the finished call c
ServiceResult(c) ==
    IF c.out.kind = "error" THEN CatchResult(c)
    ELSE IF c.op = "user_exists"
    THEN ResultObject({"success", "exists", "email"}, TRUE, <<>>, "", c, <<>>)
    ELSE IF c.op = "get_all_users"
    THEN ResultObject({"success", "users", "count"}, TRUE, <<>>, "", c, c.out.rows)
    ELSE IF c.op = "get_user_details"
    THEN IF Len(c.out.rows) > 0
         THEN ResultObject({"success", "user"}, TRUE, <<>>, "", c, <<c.out.rows[1]>>)
         ELSE ResultObject({"success", "message"}, FALSE, FailureMessage(c.op), "",
                           c, <<>>)
    ELSE IF c.out.kind = "true"
    THEN ResultObject(SuccessKeys(c.op), TRUE, SuccessMessage(c.op), "", c, <<>>)
    ELSE ResultObject({"success", "message"}, FALSE, FailureMessage(c.op), "", c, <<>>)

(***************************************************************************)
(* The routes: validation of the request, then the status and the body.    *)
(***************************************************************************)
\* email.includes('@')
IncludesAt(mail) == mail \in Mails \cup {ThirdMail}
\* password.length < 6
MinPasswordLength == 6

\* the message of the 400 response the route sends without calling
\* AuthService, <<>> when the request passes
ValidationError(c) ==
    CASE c.op = "signup" ->
           IF c.uid = 0 \/ c.mail = "" \/ c.pass = <<>>
           THEN <<"Missing required fields: userId, email, password">>
           ELSE IF c.uid <= 0 THEN <<"userId must be a positive number">>
           ELSE IF ~IncludesAt(c.mail) THEN <<"Invalid email format">>
           ELSE IF Len(c.pass) < MinPasswordLength
           THEN <<"Password must be at least 6 characters long">>
           ELSE <<>>
      [] c.op = "authenticate" ->
           IF c.mail = "" \/ c.pass = <<>>
           THEN <<"Missing required fields: email, password">>
           ELSE <<>>
      [] c.op \in {"get_user_details", "delete_user", "user_exists"} ->
           IF c.mail = "" THEN <<"Email parameter is required">> ELSE <<>>
      [] c.op = "change_password" ->
           IF c.mail = "" \/ c.pass = <<>> \/ c.newpass = <<>>
           THEN <<"Missing required fields: email, oldPassword, newPassword">>
           ELSE IF Len(c.newpass) < MinPasswordLength
           THEN <<"New password must be at least 6 characters long">>
           ELSE <<>>
      [] c.op = "change_email" ->
           IF c.mail = "" \/ c.newmail = "" \/ c.pass = <<>>
           THEN <<"Missing required fields: oldEmail, newEmail, password">>
           ELSE IF ~IncludesAt(c.newmail) THEN <<"Invalid new email format">>
           ELSE <<>>
      [] OTHER -> <<>>

SuccessStatus(op) == IF op = "signup" THEN 201 ELSE 200

FailureStatus(op) ==
    CASE op = "authenticate" -> 401
      [] op = "get_user_details" -> 404
      [] op \in {"get_all_users", "user_exists"} -> 500
      [] OTHER -> 400

\* the response of the route for the finished call c
Response(c) ==
    IF c.out.kind = "invalid"
    THEN [status |-> 400,
          body |-> ResultObject({"success", "message"}, FALSE, c.out.message, "",
                                c, <<>>)]
    ELSE LET result == ServiceResult(c)
         IN  [status |-> IF result.success THEN SuccessStatus(c.op)
                         ELSE FailureStatus(c.op),
              body |-> result]

(***************************************************************************)
(* One call, statement by statement.                                       *)
(***************************************************************************)
\* the route's validation, the EXECUTE check of SELECT routine(...), and
\* the routine up to the end of its first statement
Begin(c, rows, rnd) ==
    IF ValidationError(c) # <<>> THEN Return(c, Invalid(ValidationError(c)))
    ELSE IF c.op \in Routines /\ ~HasPrivilege(AppUser, c.op, "EXECUTE")
    THEN Return(c, Raised(PermissionDeniedFunction(c.op), "42501"))
    ELSE CASE c.op = "signup" -> SignupCheck(c, rows, rnd)
           [] c.op = "authenticate" -> Authenticate(c, rows)
           [] c.op = "get_user_details" -> GetUserDetails(c, rows)
           [] c.op = "get_all_users" -> GetAllUsers(c, rows)
           [] c.op = "user_exists" -> UserExists(c, rows)
           [] c.op = "delete_user" -> DeleteCheck(c, rows)
           [] c.op = "change_password" -> ChangePasswordSelect(c, rows, rnd)
           [] c.op = "change_email" -> ChangeEmailSelect(c, rows)
           [] OTHER -> DirectQuery(c, rows)

\* AuthService.signup called by code other than the route: the query is
\* sent with the arguments as they are
ServiceBegin(c, rows, rnd) ==
    IF ~HasPrivilege(AppUser, c.op, "EXECUTE")
    THEN Return(c, Raised(PermissionDeniedFunction(c.op), "42501"))
    ELSE SignupCheck(c, rows, rnd)

\* the next statement of a routine that has begun
Step(c, rows) ==
    CASE c.op = "signup" -> SignupInsert(c, rows)
      [] c.op = "delete_user" -> DeleteDelete(c, rows)
      [] c.op = "change_password" -> ChangePasswordUpdate(c, rows)
      [] c.op = "change_email" /\ c.pc = "count" -> ChangeEmailCount(c, rows)
      [] OTHER -> ChangeEmailUpdate(c, rows)

\* the next statement has to wait for another call's commit
Blocked(c, rows, pend) ==
    /\ c.pc = "write"
    /\ CASE c.op = "signup" -> SignupBlocked(c, rows, pend)
         [] c.op = "delete_user" -> DeleteBlocked(c, rows, pend)
         [] c.op = "change_password" -> ChangePasswordBlocked(c, rows, pend)
         [] OTHER -> ChangeEmailBlocked(c, rows, pend)

\* COMMIT, were the DELETE without its WHERE clause
CommitRowsNoWhere(rows, wr) ==
    CASE wr.kind = "insert" -> rows \cup {wr.row}
      [] wr.kind = "update" -> {r \in rows : r.userId # wr.key} \cup {wr.row}
      [] wr.kind = "delete" -> {}
      [] OTHER -> rows

\* COMMIT: the pending write becomes the committed state of the table
CommitRows(rows, wr) ==
    CASE wr.kind = "insert" -> rows \cup {wr.row}
      [] wr.kind = "update" -> {r \in rows : r.userId # wr.key} \cup {wr.row}
      [] wr.kind = "delete" -> {r \in rows : r.userId # wr.key}
      [] OTHER -> rows

\* the committed call returns the value its routine computed
Committed(c) == [Return(c, c.out) EXCEPT !.wrote = c.wr.kind]

(***************************************************************************)
(* The state.                                                              *)
(***************************************************************************)
VARIABLES
    userAuth,   \* the committed rows of the table
    calls,      \* the calls since the table was last at rest, oldest first
    base,       \* the committed rows when the oldest of calls began
    clock,      \* the server clock
    random      \* how many values gen_random_bytes has handed out

vars == <<userAuth, calls, base, clock, random>>

Init ==
    /\ userAuth = {}
    /\ calls = <<>>
    /\ base = {}
    /\ clock = 0
    /\ random = 0

Running == {i \in DOMAIN calls : calls[i].pc # "done"}
Idle(s) == \A i \in Running : calls[i].sid # s
Quiet == Running = {}

\* the uncommitted writes of the calls other than calls[i]
PendingOf(i) == {calls[j].wr : j \in {k \in Running \ {i} : calls[k].pc = "commit"}}

\* the pool hands the request to an idle connection (its connections are
\* interchangeable: the first idle one) and the call joins the history,
\* which holds at most limit calls
Accept(limit, op, uid, mail, newmail, pass, newpass) ==
    LET s == CHOOSE t \in Sessions : Idle(t) /\ \A u \in Sessions : Idle(u) => t <= u
        c == Begin(NewCall(s, op, uid, mail, newmail, pass, newpass, clock),
                   userAuth, random)
    IN  /\ \E t \in Sessions : Idle(t)
        /\ op \in {"signup", "change_password"} => random < MaxRandom
        /\ IF Quiet THEN calls' = <<c>> /\ base' = userAuth
           ELSE /\ Len(calls) < limit
                /\ calls' = Append(calls, c)
                /\ base' = base
        /\ random' = IF c.rnd >= 0 THEN random + 1 ELSE random
        /\ UNCHANGED <<userAuth, clock>>

\* POST /signup
Signup(limit, uid, mail, pass) == Accept(limit, "signup", uid, mail, "", pass, <<>>)
\* POST /login
Login(limit, mail, pass) == Accept(limit, "authenticate", 0, mail, "", pass, <<>>)
\* GET /user/:email
UserDetails(limit, mail) ==
    Accept(limit, "get_user_details", 0, mail, "", <<>>, <<>>)
\* DELETE /user/:email
DeleteUser(limit, mail) == Accept(limit, "delete_user", 0, mail, "", <<>>, <<>>)
\* PUT /user/password
ChangePassword(limit, mail, old, new) ==
    Accept(limit, "change_password", 0, mail, "", old, new)
\* PUT /user/email
ChangeEmail(limit, old, new, pass) ==
    Accept(limit, "change_email", 0, old, new, pass, <<>>)
\* GET /users
AllUsers(limit) == Accept(limit, "get_all_users", 0, "", "", <<>>, <<>>)
\* GET /user/:email/exists
Exists(limit, mail) == Accept(limit, "user_exists", 0, mail, "", <<>>, <<>>)
\* a statement on the table or the sequence, sent as authuser
Direct(limit, op) == Accept(limit, op, 0, ScriptMail, "", <<>>, <<>>)

\* AuthService.signup(userId, email, password) called directly
ServiceSignup(limit, uid, mail, pass) ==
    LET s == CHOOSE t \in Sessions : Idle(t) /\ \A u \in Sessions : Idle(u) => t <= u
        c == ServiceBegin(NewCall(s, "signup", uid, mail, "", pass, <<>>, clock),
                          userAuth, random)
    IN  /\ \E t \in Sessions : Idle(t)
        /\ random < MaxRandom
        /\ IF Quiet THEN calls' = <<c>> /\ base' = userAuth
           ELSE /\ Len(calls) < limit
                /\ calls' = Append(calls, c)
                /\ base' = base
        /\ random' = IF c.rnd >= 0 THEN random + 1 ELSE random
        /\ UNCHANGED <<userAuth, clock>>

\* the failure of the query, were the query sent again after it failed
StoreFailureRetried(c, fault) == Begin(c, userAuth, random)

\* pool.query rejects with the driver's error when the pool cannot connect;
\* an I/O error in a statement is raised inside the routine, through its
\* handler when it has one
StoreFailure(c, fault) ==
    IF fault = "connect" THEN Return(c, Raised(ConnectionRefused, "ECONNREFUSED"))
    ELSE IF HandlerPrefix(c.op) = <<>> THEN Return(c, Raised(IoError, "58030"))
    ELSE Caught(c, IoError)

\* the request is accepted as in Accept and its query fails
Fail(limit, op, uid, mail, newmail, pass, newpass, fault) ==
    LET s == CHOOSE t \in Sessions : Idle(t) /\ \A u \in Sessions : Idle(u) => t <= u
        c == StoreFailure(NewCall(s, op, uid, mail, newmail, pass, newpass, clock),
                          fault)
    IN  /\ \E t \in Sessions : Idle(t)
        /\ IF Quiet THEN calls' = <<c>> /\ base' = userAuth
           ELSE /\ Len(calls) < limit
                /\ calls' = Append(calls, c)
                /\ base' = base
        /\ UNCHANGED <<userAuth, clock, random>>

\* GET /health and GET /indexes: the request is accepted as in Accept and
\* the endpoint's query runs
Serve(limit, op) ==
    LET s == CHOOSE t \in Sessions : Idle(t) /\ \A u \in Sessions : Idle(u) => t <= u
        c == ServerQuery(NewCall(s, op, 0, "", "", <<>>, <<>>, clock), userAuth)
    IN  /\ \E t \in Sessions : Idle(t)
        /\ IF Quiet THEN calls' = <<c>> /\ base' = userAuth
           ELSE /\ Len(calls) < limit
                /\ calls' = Append(calls, c)
                /\ base' = base
        /\ UNCHANGED <<userAuth, clock, random>>

\* the next statement of the running call calls[i]
Statement(i) ==
    /\ calls[i].pc \in {"count", "write"}
    /\ ~Blocked(calls[i], userAuth, PendingOf(i))
    /\ calls' = [calls EXCEPT ![i] = Step(calls[i], userAuth)]
    /\ UNCHANGED <<userAuth, base, clock, random>>

\* the transaction of calls[i] commits and the call returns
Commit(i) ==
    /\ calls[i].pc = "commit"
    /\ userAuth' = CommitRows(userAuth, calls[i].wr)
    /\ calls' = [calls EXCEPT ![i] = Committed(calls[i])]
    /\ UNCHANGED <<base, clock, random>>

\* time passes
Tick ==
    /\ clock < MaxClock
    /\ clock' = clock + 1
    /\ UNCHANGED <<userAuth, calls, base, random>>

\* the requests that write, with passwords from pws, at most limit calls
\* overlapping
Writes(limit, pws) ==
    \/ \E uid \in UserIds, mail \in Mails, pass \in pws :
          Signup(limit, uid, mail, pass)
    \/ \E mail \in Mails : DeleteUser(limit, mail)
    \/ \E mail \in Mails, old \in pws, new \in pws :
          ChangePassword(limit, mail, old, new)
    \/ \E old \in Mails, new \in Mails, pass \in pws :
          ChangeEmail(limit, old, new, pass)

Logins(limit, pws) == \E mail \in Mails, pass \in pws : Login(limit, mail, pass)

Reads(limit) ==
    \/ \E mail \in Mails : UserDetails(limit, mail)
    \/ AllUsers(limit)
    \/ \E mail \in Mails : Exists(limit, mail)

DirectStatements(limit) == \E op \in DirectQueries : Direct(limit, op)

Progress ==
    \/ \E i \in DOMAIN calls : Statement(i)
    \/ \E i \in DOMAIN calls : Commit(i)

\* overlapping calls
Next ==
    \/ Writes(MaxCalls, OverlapPasswords)
    \/ Logins(MaxCalls, OverlapPasswords)
    \/ Progress

Spec == Init /\ [][Next]_vars

\* the backend of each connection keeps running its call: a statement that
\* is not waiting is executed and a transaction that has written commits
Turn(i) == i \in DOMAIN calls /\ (Statement(i) \/ Commit(i))

\* overlapping writes, one password, on a store that keeps responding
NextLive == Writes(MaxCalls, {PwPlain}) \/ Progress

SpecLive == Init /\ [][NextLive]_vars /\ \A i \in 1..MaxCalls : WF_vars(Turn(i))

\* one call at a time, every request and every password
NextSerial ==
    \/ Writes(1, Passwords)
    \/ Logins(1, Passwords)
    \/ Reads(1)
    \/ DirectStatements(1)
    \/ Progress

SpecSerial == Init /\ [][NextSerial]_vars

\* one call at a time while the clock advances
NextClock ==
    \/ Writes(1, OverlapPasswords)
    \/ Logins(1, OverlapPasswords)
    \/ Reads(1)
    \/ Progress
    \/ Tick

SpecClock == Init /\ [][NextClock]_vars

\* the requests whose query fails
Faults(limit, pws) ==
    \E fault \in StoreFaults :
        \/ \E uid \in UserIds, mail \in Mails, pass \in pws :
              Fail(limit, "signup", uid, mail, "", pass, <<>>, fault)
        \/ \E mail \in Mails, pass \in pws :
              Fail(limit, "authenticate", 0, mail, "", pass, <<>>, fault)
        \/ \E mail \in Mails, op \in {"get_user_details", "delete_user", "user_exists"} :
              Fail(limit, op, 0, mail, "", <<>>, <<>>, fault)
        \/ \E mail \in Mails, old \in pws, new \in pws :
              Fail(limit, "change_password", 0, mail, "", old, new, fault)
        \/ \E old \in Mails, new \in Mails, pass \in pws :
              Fail(limit, "change_email", 0, old, new, pass, <<>>, fault)
        \/ Fail(limit, "get_all_users", 0, "", "", <<>>, <<>>, fault)

\* the requests of the server's own endpoints
Endpoints(limit) == \E op \in ServerRoutes : Serve(limit, op)

\* one call at a time, the server's own endpoints included, while the store
\* may fail
NextFault ==
    \/ Writes(1, OverlapPasswords)
    \/ Logins(1, OverlapPasswords)
    \/ Reads(1)
    \/ Endpoints(1)
    \/ Faults(1, OverlapPasswords)
    \/ Progress

SpecFault == Init /\ [][NextFault]_vars

\* the arguments of a signup, the malformed ones among them
EntryIds == {-1, 0, 1}
EntryMails == {"", "a@x"}
EntryPasswords == {<<>>, PwPlain}

\* one signup at a time, through the route or straight through AuthService
NextEntry ==
    \/ \E uid \in EntryIds, mail \in EntryMails, pass \in EntryPasswords :
          Signup(1, uid, mail, pass)
    \/ \E uid \in EntryIds, mail \in EntryMails, pass \in EntryPasswords :
          ServiceSignup(1, uid, mail, pass)
    \/ Progress

SpecEntry == Init /\ [][NextEntry]_vars

\* accounts are created one at a time and move to the third mail in
\* overlapping calls
NextRace ==
    \/ \E uid \in UserIds, mail \in Mails : Signup(1, uid, mail, PwPlain)
    \/ \E old \in Mails : ChangeEmail(MaxCalls, old, ThirdMail, PwPlain)
    \/ Progress

SpecRace == Init /\ [][NextRace]_vars

\* accounts are created one at a time and changed in overlapping calls
\* while the clock advances
NextTimed ==
    \/ \E uid \in UserIds, mail \in Mails : Signup(1, uid, mail, PwPlain)
    \/ \E mail \in Mails : ChangePassword(MaxCalls, mail, PwPlain, PwPlain)
    \/ \E old \in Mails, new \in Mails : ChangeEmail(MaxCalls, old, new, PwPlain)
    \/ Progress
    \/ Tick

SpecTimed == Init /\ [][NextTimed]_vars

(***************************************************************************)
(* Running calls alone, one after the other.                               *)
(***************************************************************************)
\* the call c run from its request to its return on rows, no other call
\* in between
RECURSIVE Finish(_, _)
Finish(c, rows) ==
    IF c.pc = "done" THEN [call |-> c, rows |-> rows]
    ELSE IF c.pc = "commit"
    THEN [call |-> Committed(c), rows |-> CommitRows(rows, c.wr)]
    ELSE Finish(Step(c, rows), rows)

\* the same request as c's, with the random value c drew
RunAlone(c, rows) ==
    Finish(Begin(NewCall(c.sid, c.op, c.uid, c.mail, c.newmail, c.pass,
                         c.newpass, c.now),
                 rows, IF c.rnd >= 0 THEN c.rnd ELSE MaxRandom),
           rows)

\* the calls of the history run alone in the order given: the table at the
\* end and whether each call's result matched the one it really returned
RECURSIVE RunInOrder(_, _)
RunInOrder(order, rows) ==
    IF order = <<>> THEN [rows |-> rows, same |-> TRUE]
    ELSE LET one == RunAlone(calls[Head(order)], rows)
             rest == RunInOrder(Tail(order), one.rows)
         IN  [rows |-> rest.rows,
              same |-> /\ rest.same
                       /\ ServiceResult(one.call).success
                          = ServiceResult(calls[Head(order)]).success]

Orders == {o \in [DOMAIN calls -> DOMAIN calls] :
              \A i, j \in DOMAIN calls : o[i] = o[j] => i = j}

\* a login with the given mail and password, run on the committed table
Verify(mail, pass) ==
    Authenticate(NewCall(1, "authenticate", 0, mail, "", pass, <<>>, clock),
                 userAuth).out.kind

Finished == {i \in DOMAIN calls : calls[i].pc = "done"}

(***************************************************************************)
(* The claims.                                                             *)
(***************************************************************************)
\* the row the finished call c wrote is still the committed row of c.mail
StillWrittenBy(c) ==
    \E r \in userAuth : r.mail = c.mail /\ r.salt = SaltOf(c.rnd)

\* C1: once signup(id, identity, secret) has succeeded, and as long as the
\* row it inserted is still the row of that identity, authenticate(identity,
\* secret) returns TRUE.
C1_CreateThenVerify ==
    \A i \in Finished :
        LET c == calls[i]
        IN  (c.op = "signup" /\ c.out.kind = "true" /\ StillWrittenBy(c))
            => Verify(c.mail, c.pass) = "true"

\* a signup has succeeded and its row is committed
C1_Witness ==
    \E i \in Finished :
        /\ calls[i].op = "signup" /\ calls[i].out.kind = "true"
        /\ calls[i].pass = PwOct
        /\ StillWrittenBy(calls[i])

\* C2: a login with a password other than the one the account's salt and
\* hash were written for is rejected, and a login is accepted only when the
\* digest of stored salt and given password equals the stored hash.
C2_WrongSecretRejected ==
    \A i \in Finished :
        LET c == calls[i]
        IN  c.op = "authenticate" =>
              /\ (c.seen # NoRow /\ c.seen.rawpass # c.pass) => c.out.kind # "true"
              /\ c.out.kind = "true" =>
                    /\ c.seen # NoRow
                    /\ HashPass(c.seen.salt, c.pass).ok
                    /\ HashPass(c.seen.salt, c.pass).hash = c.seen.hashpass

\* the response the login c would get if no account had its mail
AbsentRun(c) ==
    RunAlone(c, {r \in base : r.mail # c.mail}).call

\* C3: a login that is not accepted gets the same AuthService result and
\* the same response whether or not an account has the mail.
C3_AbsentLikeWrongSecret ==
    \A i \in Finished :
        LET c == calls[i]
        IN  (c.op = "authenticate" /\ c.seen # NoRow /\ c.out.kind # "true")
            => /\ ServiceResult(c) = ServiceResult(AbsentRun(c))
               /\ Response(c) = Response(AbsentRun(c))

\* C4: no two committed rows have the same mail, whatever calls overlap,
\* and a signup or change_email that does not succeed has written nothing.
C4_MailUnique ==
    /\ \A r, q \in userAuth : r.mail = q.mail => r = q
    /\ \A i \in Finished :
          (calls[i].op \in {"signup", "change_email"} /\ calls[i].out.kind # "true")
          => calls[i].wrote = "none"

\* a signup or change_email lost to the unique constraint on mail
C4_Witness ==
    \E i \in Finished :
        /\ calls[i].out.kind = "error"
        /\ calls[i].out.message
           = HandlerPrefix(calls[i].op) \o DuplicateKey("userauth_mail_key")
        /\ \E r \in userAuth : r.mail \in {calls[i].mail, calls[i].newmail}

\* what the caller of signup gets when the mail is taken
AlreadyExists(c) ==
    /\ ~ServiceResult(c).success
    /\ ServiceResult(c).message
       = <<"Error during signup: ", "User with email ", c.mail, " already exists">>

\* the mail of the signup c belonged, when c was sent, to an account with
\* another userId
MailTaken(c) ==
    c.op = "signup" /\ \E r \in base : r.mail = c.mail /\ r.userId # c.uid

\* C5: a signup whose mail belongs to an account with another userId fails
\* with "already exists" and leaves the table, that account's row and its
\* timestamps included, as it was.
C5_DuplicateSignupFails ==
    \A i \in Finished :
        MailTaken(calls[i])
        => /\ AlreadyExists(calls[i])
           /\ calls[i].wrote = "none"
           /\ userAuth = base

\* a signup for the mail of an account created at an earlier time
C5_Witness ==
    \E i \in Finished :
        /\ MailTaken(calls[i])
        /\ \E r \in userAuth : r.mail = calls[i].mail /\ r.updated_at < calls[i].now
        /\ AlreadyExists(calls[i])

\* two signups for one free mail with two free userIds have overlapped and
\* both have returned
SignupRace ==
    /\ Len(calls) = 2 /\ Finished = {1, 2}
    /\ calls[1].op = "signup" /\ calls[2].op = "signup"
    /\ calls[1].mail = calls[2].mail /\ calls[1].uid # calls[2].uid
    /\ \A r \in base : /\ r.mail # calls[1].mail
                       /\ r.userId \notin {calls[1].uid, calls[2].uid}

\* C6: of two overlapping signups for the same mail with different userIds
\* exactly one succeeds, and the other fails with "already exists".
C6_SignupRaceAlreadyExists ==
    SignupRace =>
        \E w, l \in {1, 2} :
            /\ w # l
            /\ calls[w].out.kind = "true"
            /\ AlreadyExists(calls[l])

\* the statement failed for lack of a privilege
PermissionDenied(c) ==
    /\ c.out.kind = "error"
    /\ \/ c.out.code = "42501"
       \/ c.out.message = HandlerPrefix(c.op) \o PermissionDeniedTable

C8_Serializable ==
    (Quiet /\ calls # <<>>) =>
        \E o \in Orders :
            /\ RunInOrder(o, base).same
            /\ RunInOrder(o, base).rows = userAuth

\* C9: the hash of every committed row is the digest of that row's salt and
\* of the password of the one write that set the salt, also while
\* change_password calls overlap.
C9_SaltMatchesHash ==
    /\ \A r \in userAuth :
          /\ HashPass(r.salt, r.rawpass).ok
          /\ r.hashpass = HashPass(r.salt, r.rawpass).hash
    /\ \A i \in Finished, r \in userAuth :
          (/\ calls[i].op = "change_password" /\ calls[i].out.kind = "true"
           /\ r.salt = SaltOf(calls[i].rnd))
          => r.hashpass = HashPass(SaltOf(calls[i].rnd), calls[i].newpass).hash

\* two overlapping change_password calls on one account have both written
C9_Witness ==
    /\ Len(calls) = 2 /\ Finished = {1, 2}
    /\ calls[1].op = "change_password" /\ calls[2].op = "change_password"
    /\ calls[1].mail = calls[2].mail
    /\ calls[1].newpass # calls[2].newpass
    /\ calls[1].wrote = "update" /\ calls[2].wrote = "update"

\* the change_password c has succeeded and its write is still committed
PasswordChanged(c) ==
    c.op = "change_password" /\ c.out.kind = "true" /\ StillWrittenBy(c)

\* C10: after change_password(identity, old, new) succeeds, a login with
\* old is rejected and a login with new is accepted; old and new are taken
\* to be two different passwords, the reading that asks least of the code.
C10_OldRejectedNewAccepted ==
    \A i \in Finished :
        (PasswordChanged(calls[i]) /\ calls[i].pass # calls[i].newpass)
        => /\ Verify(calls[i].mail, calls[i].pass) # "true"
           /\ Verify(calls[i].mail, calls[i].newpass) = "true"

\* the finished call c failed and its caller got the routine's message
\* text, wrapped by the routine's handler
FailedWith(c, text) ==
    /\ ~ServiceResult(c).success
    /\ ServiceResult(c).message = HandlerPrefix(c.op) \o text

\* the row of base with the given mail, NoRow when there is none
Before(mail) == SelectByMail(base, mail)

\* C11: a change_password for a mail without account fails with "does not
\* exist", one whose old password is not the account's password fails with
\* "Invalid old password"; either way the table is as it was and a login
\* with the account's password still succeeds.
C11_ChangePasswordFailures ==
    \A i \in Finished :
        LET c == calls[i]
        IN  c.op = "change_password" =>
            /\ Before(c.mail) = NoRow
               => /\ FailedWith(c, <<"User with email ", c.mail, " does not exist">>)
                  /\ userAuth = base
            /\ (Before(c.mail) # NoRow /\ c.pass # Before(c.mail).rawpass)
               => /\ FailedWith(c, <<"Invalid old password for user ", c.mail>>)
                  /\ userAuth = base
                  /\ Verify(c.mail, Before(c.mail).rawpass) = "true"

\* the change_email c has succeeded, alone since the table was base
EmailChanged(c) ==
    c.op = "change_email" /\ c.out.kind = "true" /\ Len(calls) = 1

\* C12: after change_email(old, new, password) succeeds a login with old is
\* rejected and a login with new succeeds, and the account's row is the one
\* it was with the new mail and the time of the call as updated_at: same
\* userId, salt, hash and created_at.
C12_ChangeEmailMovesAccount ==
    \A i \in Finished :
        LET c == calls[i]
        IN  EmailChanged(c) =>
            /\ Verify(c.mail, c.pass) = "false"
            /\ Verify(c.newmail, c.pass) = "true"
            /\ Before(c.mail) # NoRow
            /\ userAuth = (base \ {Before(c.mail)})
                          \cup {[Before(c.mail) EXCEPT !.mail = c.newmail,
                                                       !.updated_at = c.now]}

\* a change_email has succeeded at a later time than the account's last
\* write
C12_Witness ==
    \E i \in Finished :
        /\ EmailChanged(calls[i])
        /\ calls[i].now > Before(calls[i].mail).updated_at

\* c is a change_email, alone since the table was base, for an account
\* that exists, to the mail of another account
MailOfAnother(c) ==
    /\ c.op = "change_email" /\ Len(calls) = 1
    /\ Before(c.mail) # NoRow /\ Before(c.newmail) # NoRow
    /\ Before(c.newmail).userId # Before(c.mail).userId

\* what the caller of change_email gets when the new mail is taken
InUse(c) == FailedWith(c, <<"Email ", c.newmail, " is already in use">>)

\* C13: a change_email to the mail of another account fails with "already
\* in use" and the table, both accounts' rows included, is as it was.
C13_ChangeEmailTaken ==
    \A i \in Finished :
        MailOfAnother(calls[i])
        => /\ InUse(calls[i])
           /\ calls[i].wrote = "none"
           /\ userAuth = base

\* a change_email with the right password to the mail of another account
\* has failed
C13_Witness ==
    \E i \in Finished :
        /\ MailOfAnother(calls[i])
        /\ calls[i].pass = Before(calls[i].mail).rawpass
        /\ InUse(calls[i])

\* C14: a change_email for an account that exists fails with "already in
\* use" exactly when the new mail is the mail of a different account; with
\* the account's own mail as new mail it does not.
C14_InUseOnlyForAnother ==
    \A i \in Finished :
        LET c == calls[i]
        IN  (c.op = "change_email" /\ Len(calls) = 1 /\ Before(c.mail) # NoRow)
            => (InUse(c) <=> MailOfAnother(c))

\* user_exists for the given mail, run on the committed table
ExistsNow(mail) ==
    UserExists(NewCall(1, "user_exists", 0, mail, "", <<>>, <<>>, clock),
               userAuth).out.kind

\* the delete_user c has succeeded, alone since the table was base
Deleted(c) ==
    c.op = "delete_user" /\ c.out.kind = "true" /\ Len(calls) = 1

\* C15: after delete_user(mail) succeeds user_exists(mail) is false and a
\* login with that mail is rejected for every password, the deleted
\* account's own included.
C15_DeletedIsGone ==
    \A i \in Finished :
        Deleted(calls[i])
        => /\ ExistsNow(calls[i].mail) = "false"
           /\ \A pass \in Passwords \cup {Before(calls[i].mail).rawpass} :
                 Verify(calls[i].mail, pass) = "false"

\* an account has been deleted while another is in the table
C15_Witness ==
    \E i \in Finished :
        /\ Deleted(calls[i])
        /\ Before(calls[i].mail).rawpass = PwOct
        /\ userAuth # {}

\* C16: a delete_user for a mail without account fails with "does not
\* exist" and leaves the table as it was; for a mail with an account it
\* succeeds and removes that row and no other; the request carries no
\* password.
C16_DeleteUser ==
    \A i \in Finished :
        LET c == calls[i]
        IN  (c.op = "delete_user" /\ Len(calls) = 1) =>
            /\ c.pass = <<>> /\ c.newpass = <<>>
            /\ IF Before(c.mail) = NoRow
               THEN /\ FailedWith(c, <<"User with email ", c.mail, " does not exist">>)
                    /\ userAuth = base
               ELSE /\ ServiceResult(c).success
                    /\ userAuth = base \ {Before(c.mail)}

\* a delete_user has failed for a mail without account while the table was
\* not empty
C16_Witness ==
    \E i \in Finished :
        /\ calls[i].op = "delete_user" /\ Len(calls) = 1
        /\ Before(calls[i].mail) = NoRow
        /\ ~ServiceResult(calls[i]).success
        /\ userAuth # {}

\* the sequence value occurs in the sequence text
Contains(text, value) ==
    /\ value # <<>>
    /\ \E k \in 1..(Len(text) - Len(value) + 1) :
          SubSeq(text, k, k + Len(value) - 1) = value

\* the text holds the salt of a row of the table, now or when the oldest
\* call began, or a hash
ShowsSaltOrHash(text) ==
    \/ \E r \in userAuth \cup base : Contains(text, r.salt)
    \/ Contains(text, <<"sha256">>)

\* the columns of the rows a response may carry
PublicColumns == {"user_id", "email", "created_at", "updated_at"}

\* the body of the response to c carries no salt and no hash
BodyHidesSaltAndHash(c) ==
    /\ \A k \in DOMAIN Response(c).body.rows :
          DOMAIN Response(c).body.rows[k] = PublicColumns
    /\ ~ShowsSaltOrHash(Response(c).body.message)

\* C17 as claimed: no response carries a salt or a hash; a successful
\* signup returns only userId and email with the success flag and the
\* message, get_user_details and get_all_users return only the four public
\* columns, and every other result has only a success flag, a message and
\* mails.
C17_OnlyFlagMessageIdentities ==
    \A i \in Finished :
        LET c == calls[i]
            body == Response(c).body
        IN  /\ BodyHidesSaltAndHash(c)
            /\ (c.op = "signup" /\ body.success)
               => body.keys = {"success", "message", "userId", "email"}
            /\ c.op \in {"get_user_details", "get_all_users"} /\ body.success
               => body.keys \subseteq {"success", "user", "users", "count"}
            /\ ~(c.op \in {"signup", "get_user_details", "get_all_users"}
                 /\ body.success)
               => body.keys \subseteq {"success", "message", "email", "oldEmail",
                                       "newEmail"}

\* C17 as amended: the same, where a failed call's result also has the
\* error code of the database and user_exists' result has the exists flag.
C17_NoSaltOrHash ==
    \A i \in Finished :
        LET c == calls[i]
            body == Response(c).body
        IN  /\ BodyHidesSaltAndHash(c)
            /\ (c.op = "signup" /\ body.success)
               => body.keys = {"success", "message", "userId", "email"}
            /\ c.op \in {"get_user_details", "get_all_users"} /\ body.success
               => body.keys \subseteq {"success", "user", "users", "count"}
            /\ ~(c.op \in {"signup", "get_user_details", "get_all_users"}
                 /\ body.success)
               => body.keys \subseteq {"success", "message", "email", "oldEmail",
                                       "newEmail", "error", "exists"}

\* get_all_users has returned the rows of two accounts
C17_Witness ==
    \E i \in Finished :
        /\ calls[i].op = "get_all_users"
        /\ Len(Response(calls[i]).body.rows) = 2

(***************************************************************************)
(* The loggers: what the server writes for the call c.                     *)
(***************************************************************************)
\* req.method and req.path of the request
Method(op) ==
    CASE op \in {"signup", "authenticate"} -> "POST"
      [] op \in {"change_password", "change_email"} -> "PUT"
      [] op = "delete_user" -> "DELETE"
      [] OTHER -> "GET"

Path(c) ==
    CASE c.op = "signup" -> <<"/api/auth/signup">>
      [] c.op = "authenticate" -> <<"/api/auth/login">>
      [] c.op = "change_password" -> <<"/api/auth/user/password">>
      [] c.op = "change_email" -> <<"/api/auth/user/email">>
      [] c.op = "get_all_users" -> <<"/api/auth/users">>
      [] c.op = "user_exists" -> <<"/api/auth/user/", c.mail, "/exists">>
      [] OTHER -> <<"/api/auth/user/", c.mail>>

\* requestLogger: timestamp - method path - IP - UA
RequestLine(c) == <<Method(c.op), " ">> \o Path(c)

\* the label of console.error in the catch of each AuthService method
ErrorLabel(op) ==
    CASE op = "signup" -> "Signup error:"
      [] op = "authenticate" -> "Authentication error:"
      [] op = "get_user_details" -> "Get user details error:"
      [] op = "delete_user" -> "Delete user error:"
      [] op = "change_password" -> "Change password error:"
      [] op = "change_email" -> "Change email error:"
      [] op = "get_all_users" -> "Get all users error:"
      [] OTHER -> "User exists check error:"

\* the lines written for the finished request c: the request logger's,
\* then the catch's when the query raised
LogLines(c) ==
    IF c.out.kind = "error"
    THEN <<RequestLine(c), <<ErrorLabel(c.op)>> \o c.out.message>>
    ELSE <<RequestLine(c)>>

\* the passwords of the request c, and the passwords, salts and hashes of
\* the rows of the table now or when the oldest call began
Secrets(c) ==
    ({c.pass, c.newpass, IF c.rnd >= 0 THEN SaltOf(c.rnd) ELSE <<>>}
     \cup {r.rawpass : r \in userAuth \cup base}
     \cup {r.salt : r \in userAuth \cup base}) \ {<<>>}

\* the text holds a password, a salt or a hash
ShowsSecret(c, text) ==
    \/ \E v \in Secrets(c) : Contains(text, v)
    \/ Contains(text, <<"sha256">>)

StoreFailed(c) ==
    /\ c.out.kind = "error"
    /\ Contains(c.out.message, ConnectionRefused) \/ Contains(c.out.message, IoError)

\* what tells one kind of result from another without reading the message:
\* the flag, the properties present and the error code of AuthService's
\* result, and with them the status of the response
ResultKind(c) ==
    [success |-> ServiceResult(c).success, keys |-> ServiceResult(c).keys,
     error |-> ServiceResult(c).error]
ResponseKind(c) ==
    [status |-> Response(c).status, keys |-> Response(c).body.keys,
     error |-> Response(c).body.error]

\* the requests of the same operation as c that, run alone on base with no
\* store failure, fail for a reason of the operation itself
DomainFailures(c) ==
    {d \in {RunAlone(NewCall(c.sid, c.op, uid, mail, newmail, pass, c.newpass,
                             c.now), base).call :
               uid \in {c.uid}, mail \in Mails, newmail \in Mails,
               pass \in {c.pass, PwPlain}} :
        ~ServiceResult(d).success}

\* C19: the result and the response of a call whose query failed in the
\* store are of another kind than those of every failure of the same
\* operation for a reason of its own (already exists, does not exist,
\* wrong password, already in use, invalid credentials).
C19_StoreErrorDistinct ==
    \A i \in Finished :
        StoreFailed(calls[i])
        => \A d \in DomainFailures(calls[i]) :
              /\ ResultKind(calls[i]) # ResultKind(d)
              /\ ResponseKind(calls[i]) # ResponseKind(d)

\* C20: the result and the response of a call whose query failed in the
\* store do not hold the text of the driver's or the database's error.
C20_NoRawErrorText ==
    \A i \in Finished :
        StoreFailed(calls[i])
        => /\ ~Contains(ServiceResult(calls[i]).message, ConnectionRefused)
           /\ ~Contains(ServiceResult(calls[i]).message, IoError)
           /\ ~Contains(Response(calls[i]).body.message, ConnectionRefused)
           /\ ~Contains(Response(calls[i]).body.message, IoError)

\* the calls that have written a salt and not yet committed
Salting == {i \in Running : calls[i].pc = "commit"
                            /\ calls[i].op \in {"signup", "change_password"}}

\* the salts of the committed rows, now and when the oldest call began
SaltsHeld == {r.salt : r \in userAuth \cup base}

\* C21: no two committed rows have the same salt, and the salt a signup or
\* a change_password is about to commit is none of the salts committed
\* since the oldest call began, the account's own before the change
\* included, and not the salt of another uncommitted write; gen_random_bytes
\* is taken to return a new value each time.
C21_SaltsNeverReused ==
    /\ \A r, q \in userAuth : r.salt = q.salt => r = q
    /\ \A i \in Salting :
          /\ calls[i].wr.row.salt \notin SaltsHeld
          /\ calls[i].op = "change_password"
             => calls[i].wr.row.salt # calls[i].seen.salt
          /\ \A j \in Salting \ {i} : calls[j].wr.row.salt # calls[i].wr.row.salt

\* a change_password is about to commit its salt while another account is
\* in the table
C21_Witness ==
    \E i \in Salting :
        /\ calls[i].op = "change_password"
        /\ Cardinality(userAuth) = 2

\* the calls whose UPDATE is done and not yet committed
Updating == {i \in Running : calls[i].pc = "commit" /\ calls[i].wr.kind = "update"}

\* C22: no two committed rows have the same userId; a signup that does not
\* succeed, a signup for a userId in use among them, also one racing with
\* another signup for that userId, has inserted nothing; and an UPDATE
\* leaves the userId of the row it changes as it was.
C22_UserIdUniqueImmutable ==
    /\ \A r, q \in userAuth : r.userId = q.userId => r = q
    /\ \A i \in Finished :
          (calls[i].op = "signup" /\ calls[i].out.kind # "true")
          => calls[i].wrote = "none"
    /\ \A i \in Updating :
          /\ calls[i].wr.row.userId = calls[i].wr.key
          /\ calls[i].wr.row.userId = calls[i].seen.userId

\* of two overlapping signups for one userId and two mails, one has lost
\* to the primary key
C22_Witness ==
    \E i \in Finished :
        /\ Len(calls) = 2
        /\ calls[i].op = "signup"
        /\ calls[i].out.message
           = HandlerPrefix("signup") \o DuplicateKey("userauth_pkey")
        /\ \A r \in base : r.userId # calls[i].uid
        /\ \E r \in userAuth : r.userId = calls[i].uid /\ r.mail # calls[i].mail

\* the committed row with the given userId, NoRow when there is none
RowOf(rows, uid) ==
    IF \E r \in rows : r.userId = uid
    THEN CHOOSE r \in rows : r.userId = uid
    ELSE NoRow

\* C23: a successful signup stores the time of the call as created_at and
\* as updated_at; no call changes the created_at of a row that stays; a
\* successful change_password or change_email stores the time of the call
\* as updated_at.
C23_Timestamps ==
    \A i \in Finished :
        LET c == calls[i]
        IN  Len(calls) = 1 =>
            /\ (c.op = "signup" /\ c.out.kind = "true")
               => /\ RowOf(userAuth, c.uid).created_at = c.now
                  /\ RowOf(userAuth, c.uid).updated_at = c.now
            /\ \A r \in base :
                  RowOf(userAuth, r.userId) # NoRow
                  => RowOf(userAuth, r.userId).created_at = r.created_at
            /\ (c.op \in {"change_password", "change_email"} /\ c.out.kind = "true")
               => RowOf(userAuth, Before(c.mail).userId).updated_at = c.now

\* a change_password has succeeded at a later time than the account's
\* signup
C23_Witness ==
    \E i \in Finished :
        /\ Len(calls) = 1
        /\ calls[i].op = "change_password" /\ calls[i].out.kind = "true"
        /\ calls[i].now > Before(calls[i].mail).created_at

\* C24: user_exists(mail) returns true exactly when a committed row has
\* that mail when it is called, and AuthService reports that value: so it
\* is true for the mail of a successful signup and for the new mail of a
\* successful change_email, false for the old mail and for the mail of a
\* deleted account.
C24_ExistsIsExact ==
    /\ \A mail \in Mails :
          ExistsNow(mail) = "true" <=> \E r \in userAuth : r.mail = mail
    /\ \A i \in Finished :
          LET c == calls[i]
          IN  Len(calls) = 1 =>
              /\ c.op = "user_exists"
                 => /\ ServiceResult(c).success
                    /\ ServiceResult(c).exists <=> Before(c.mail) # NoRow
              /\ (c.op = "signup" /\ c.out.kind = "true")
                 => ExistsNow(c.mail) = "true"
              /\ (c.op = "change_email" /\ c.out.kind = "true")
                 => ExistsNow(c.newmail) = "true" /\ ExistsNow(c.mail) = "false"
              /\ (c.op = "delete_user" /\ c.out.kind = "true")
                 => ExistsNow(c.mail) = "false"

\* user_exists has answered false for a mail without account while another
\* account was in the table
C24_Witness ==
    \E i \in Finished :
        /\ Len(calls) = 1
        /\ calls[i].op = "user_exists"
        /\ ~ServiceResult(calls[i]).exists
        /\ userAuth # {}

\* C25: the query of every request the application serves is the call of
\* a routine or names no relation: none is sent at the table userAuth.
C25_OnlyRoutineCalls ==
    \A i \in Finished :
        calls[i].op \in Routines \cup ServerRoutes
        => QueryTarget(calls[i].op).name # "userAuth"

\* the step accepts a request and its query fails in the store
QueryFails ==
    /\ Len(calls') > 0
    /\ LET n == calls'[Len(calls')]
       IN  \E fault \in StoreFaults :
              Fail(1, n.op, n.uid, n.mail, n.newmail, n.pass, n.newpass, fault)

\* C26: a call whose query fails in the store is finished by that one
\* attempt: it returns the failure, nothing is written and the table is
\* as it was; and the table changes only when the one transaction of a
\* call commits, and that call returns then.
C26_OneAttemptNoRetry ==
    [][/\ QueryFails
          => LET c == calls'[Len(calls')]
             IN  /\ c.pc = "done"
                 /\ c.out.kind = "error"
                 /\ ~ServiceResult(c).success
                 /\ c.wr = NoWrite
                 /\ userAuth' = userAuth
       /\ userAuth' # userAuth
          => \E i \in Running : /\ calls[i].pc = "commit"
                                /\ calls' = [calls EXCEPT ![i] = Committed(calls[i])]]_vars

C26_Witness ==
    \E i \in Finished :
        /\ StoreFailed(calls[i])
        /\ calls[i].op = "signup"
        /\ userAuth # {}
        /\ SelectByMail(userAuth, calls[i].mail) = NoRow
        /\ \A r \in userAuth : r.userId # calls[i].uid

\* the identities the call c concerns
Identities(c) == IF c.op = "change_email" THEN {c.mail, c.newmail} ELSE {c.mail}

\* calls[i] waits for the uncommitted write of calls[j]
WaitsFor(i, j) ==
    /\ calls[j].pc = "commit"
    /\ Blocked(calls[i], userAuth, {calls[j].wr})

\* C27: a call waits only for calls that concern an identity it concerns
\* itself: no call waits for a call about other identities.
C27_NoWaitAcrossIdentities ==
    \A i \in Running : \A j \in Running \ {i} :
        WaitsFor(i, j) => Identities(calls[i]) \cap Identities(calls[j]) # {}

\* C27 (amended): a call waits only for a call that concerns an identity
\* it concerns itself, or, when it is a signup, for a call whose write holds
\* the userId it inserts.
C27_WaitsOnlySameIdentityOrId ==
    \A i \in Running : \A j \in Running \ {i} :
        WaitsFor(i, j)
        => \/ Identities(calls[i]) \cap Identities(calls[j]) # {}
           \/ /\ calls[i].op = "signup"
              /\ calls[i].uid \in {calls[j].wr.key, calls[j].wr.row.userId}

\* a call about to write while a call about another identity and another
\* userId has written and not committed
C27_Witness ==
    \E i \in Running : \E j \in Running \ {i} :
        /\ calls[i].pc = "write"
        /\ calls[j].pc = "commit"
        /\ Identities(calls[i]) \cap Identities(calls[j]) = {}
        /\ calls[i].op \in {"delete_user", "change_password"}
        /\ SelectByMail(userAuth, calls[i].mail) # NoRow
        /\ ~Blocked(calls[i], userAuth, PendingOf(i))

\* C28: while the store keeps responding, calls in flight all return in
\* the end, however they interleave and wait for each other; a call that
\* has not returned holds no result the caller sees, and a call that has
\* returned holds its outcome and no write of its own left to commit.
C28_EveryCallReturns ==
    /\ [](\A i \in DOMAIN calls :
            /\ calls[i].pc \in {"count", "write"} => calls[i].out = Pending
            /\ calls[i].pc = "done" => calls[i].out # Pending /\ calls[i].wr = NoWrite)
    /\ ~Quiet ~> Quiet

\* a write waits for another call's uncommitted write
C28_Witness ==
    \E i \in Running : \E j \in Running \ {i} :
        /\ WaitsFor(i, j)
        /\ {calls[i].op, calls[j].op} \subseteq
               {"signup", "change_password", "change_email", "delete_user"}
        /\ calls[i].op # calls[j].op

\* C29: whatever the store did (the routine returned true, false or rows,
\* raised an exception, or the query failed), the AuthService method
\* returns an object with a boolean success: true or false as the routine
\* returned, and false with the error's message and code when it raised or
\* the query failed.
C29_AlwaysResultObject ==
    \A i \in Finished :
        LET c == calls[i]
            result == ServiceResult(c)
        IN  c.op \in Routines /\ c.out.kind # "invalid"
            => /\ "success" \in result.keys
               /\ result.success \in BOOLEAN
               /\ c.out.kind = "error"
                  => /\ ~result.success
                     /\ result.message = c.out.message
                     /\ result.error = c.out.code
               /\ c.op \in {"signup", "authenticate", "delete_user",
                            "change_password", "change_email"}
                  => (result.success <=> c.out.kind = "true")

\* a routine has raised an exception of its own
C29_Witness ==
    \E i \in Finished :
        /\ calls[i].out.kind = "error"
        /\ calls[i].out.code = "P0001"
        /\ ~StoreFailed(calls[i])
        /\ ~ServiceResult(calls[i]).success

\* C30: every row of the table has a positive userId and a mail that is
\* not empty, and was written for a password that is not empty, whether the
\* signup came through the route or straight through AuthService.
C30_AccountsWellFormed ==
    \A r \in userAuth : r.userId > 0 /\ r.mail # "" /\ r.rawpass # <<>>

\* a signup sent next, run alone on the committed table
SignupNow(uid, mail, pass) ==
    Finish(Begin(NewCall(1, "signup", uid, mail, "", pass, <<>>, clock),
                 userAuth, MaxRandom),
           userAuth)

\* a login run on the table rows
VerifyOn(rows, mail, pass) ==
    Authenticate(NewCall(1, "authenticate", 0, mail, "", pass, <<>>, clock),
                 rows).out.kind

\* C31: after delete_user(mail) succeeds no row holds the mail or the userId
\* of the deleted account, and a signup with that userId, that mail and any
\* password succeeds, after which a login with that password is accepted.
C31_DeleteThenCreateAgain ==
    \A i \in Finished :
        Deleted(calls[i])
        => LET c == calls[i]
               uid == Before(c.mail).userId
           IN  /\ \A r \in userAuth : r.mail # c.mail /\ r.userId # uid
               /\ \A pass \in Passwords :
                     LET again == SignupNow(uid, c.mail, pass)
                     IN  /\ again.call.out.kind = "true"
                         /\ VerifyOn(again.rows, c.mail, pass) = "true"

\* the change_email that undoes the finished change_email c, sent next with
\* the same password and run alone on the committed table
ChangeBack(c) ==
    Finish(Begin(NewCall(1, "change_email", 0, c.newmail, c.mail, c.pass, <<>>,
                         clock),
                 userAuth, MaxRandom),
           userAuth)

\* C32: after change_email(a, b, s) has succeeded, change_email(b, a, s)
\* succeeds too and the account has its mail a again with the userId, salt,
\* hash and created_at it had at first; a login with a and s is then
\* accepted and no account has the mail b.
C32_ChangeEmailRoundTrip ==
    \A i \in Finished :
        EmailChanged(calls[i])
        => LET c == calls[i]
               first == Before(c.mail)
               back == ChangeBack(c)
               last == SelectByMail(back.rows, c.mail)
           IN  /\ back.call.out.kind = "true"
               /\ ServiceResult(back.call).success
               /\ last.userId = first.userId
               /\ last.salt = first.salt
               /\ last.hashpass = first.hashpass
               /\ last.created_at = first.created_at
               /\ Cardinality(back.rows) = Cardinality(base)
               /\ VerifyOn(back.rows, c.mail, c.pass) = "true"
               /\ RowsByMail(back.rows, c.newmail) = {}
               /\ UserExists(NewCall(1, "user_exists", 0, c.newmail, "", <<>>, <<>>,
                                     clock), back.rows).out.kind = "false"

\* a change_email has succeeded with the account's own password, later
\* than the account was created
C32_Witness ==
    \E i \in Finished :
        /\ EmailChanged(calls[i])
        /\ calls[i].pass = Before(calls[i].mail).rawpass
        /\ Before(calls[i].mail).created_at = 0
        /\ clock = 1

\* two change_email calls of two accounts, each with its account's
\* password, to one mail that was free have overlapped and both have
\* returned
EmailRace ==
    /\ Len(calls) = 2 /\ Finished = {1, 2}
    /\ calls[1].op = "change_email" /\ calls[2].op = "change_email"
    /\ calls[1].newmail = calls[2].newmail /\ calls[1].mail # calls[2].mail
    /\ Before(calls[1].newmail) = NoRow
    /\ \A i \in {1, 2} : /\ Before(calls[i].mail) # NoRow
                         /\ Before(calls[i].mail).rawpass = calls[i].pass

\* C33: of two overlapping change_email calls of two accounts to the same
\* free mail exactly one succeeds; the other fails with "already in use"
\* and its account's row is as it was.
C33_EmailRaceInUse ==
    EmailRace =>
        \E w, l \in {1, 2} :
            /\ w # l
            /\ calls[w].out.kind = "true"
            /\ InUse(calls[l])
            /\ calls[l].wrote = "none"
            /\ SelectByMail(userAuth, calls[l].mail) = Before(calls[l].mail)

\* two change_password calls for one account, both with the password the
\* account had when they were sent and with two different new passwords,
\* have overlapped and both have returned
PasswordRace ==
    /\ Len(calls) = 2 /\ Finished = {1, 2}
    /\ calls[1].op = "change_password" /\ calls[2].op = "change_password"
    /\ calls[1].mail = calls[2].mail
    /\ calls[1].pass = calls[2].pass
    /\ Before(calls[1].mail) # NoRow
    /\ Before(calls[1].mail).rawpass = calls[1].pass
    /\ calls[1].newpass # calls[2].newpass

\* C34: of two overlapping change_password calls for one account with the
\* same old password and different new passwords at most one succeeds.
C34_AtMostOneChangePassword ==
    PasswordRace =>
        ~(ServiceResult(calls[1]).success /\ ServiceResult(calls[2]).success)

\* what the caller of change_email gets when the password is not accepted
InvalidPassword(c) == FailedWith(c, <<"Invalid password for user ", c.mail>>)

\* C35: a change_email for an account that exists fails with "already in
\* use" whenever an account has the new mail, whatever the password; it
\* fails with "Invalid password" only when no account has the new mail; and
\* with a password other than the account's it never succeeds, failing with
\* "already in use" exactly when an account has the new mail.
C35_ChangeEmailCheckOrder ==
    \A i \in Finished :
        LET c == calls[i]
            taken == Before(c.newmail) # NoRow
        IN  (c.op = "change_email" /\ Len(calls) = 1 /\ Before(c.mail) # NoRow)
            => /\ taken => InUse(c)
               /\ InvalidPassword(c) => ~taken
               /\ c.pass # Before(c.mail).rawpass
                  => /\ ~ServiceResult(c).success
                     /\ InUse(c) <=> taken

\* C36: every committed row has updated_at >= created_at, and no step
\* lowers the updated_at of a row that stays, also when the calls that
\* change the row overlap.
C36_UpdatedAtMonotone ==
    [][/\ \A r \in userAuth : r.updated_at >= r.created_at
       /\ \A r \in userAuth' : r.updated_at >= r.created_at
       /\ \A r \in userAuth :
             RowOf(userAuth', r.userId) # NoRow
             => RowOf(userAuth', r.userId).updated_at >= r.updated_at]_vars

\* the routines whose result is decided by ROW_COUNT
CountedWrites == {"delete_user", "change_password", "change_email"}

\* C37: a delete_user, change_password or change_email reports success
\* exactly when its statement wrote a row, one row; a call that passed its
\* check and found no row to write, the row having been deleted or renamed
\* meanwhile, returns false, is reported as a failure and has written
\* nothing.
C37_SuccessIffOneRowWritten ==
    /\ \A i \in Finished :
          LET c == calls[i]
          IN  c.op \in CountedWrites
              => /\ ServiceResult(c).success
                    <=> c.wrote = (IF c.op = "delete_user" THEN "delete" ELSE "update")
                 /\ c.out.kind = "false"
                    => /\ c.wrote = "none"
                       /\ \A r \in userAuth : r.mail # c.mail
    /\ \A i \in Running :
          LET c == calls[i]
          IN  (c.op \in CountedWrites /\ c.pc = "commit")
              => /\ c.out.kind = "true"
                 /\ Cardinality({r \in userAuth : r.userId = c.wr.key}) = 1

\* a call passed its check and then found no row to write
C37_Witness ==
    \E i \in Finished :
        /\ calls[i].op \in CountedWrites
        /\ calls[i].seen # NoRow
        /\ calls[i].out.kind = "false"

\* the routines that only read
ReadOnly == {"authenticate", "user_exists", "get_user_details", "get_all_users"}

\* C38: a call of authenticate, user_exists, get_user_details or
\* get_all_users returns within its one statement, has no write pending or
\* done, and leaves the table, every column of every row, as it was when
\* the call was sent, whatever it returns.
C38_ReadsChangeNothing ==
    \A i \in DOMAIN calls :
        LET c == calls[i]
        IN  (c.op \in ReadOnly /\ Len(calls) = 1)
            => /\ c.pc = "done"
               /\ c.wr = NoWrite
               /\ c.wrote = "none"
               /\ userAuth = base

\* a login has been accepted at a later time than the row was last written
C38_Witness ==
    \E i \in Finished :
        /\ calls[i].op = "authenticate" /\ calls[i].out.kind = "true"
        /\ Len(calls) = 1
        /\ calls[i].now > Before(calls[i].mail).updated_at
        /\ Cardinality(userAuth) = 2

\* the userIds of the accounts in rows
Ids(rows) == {r.userId : r \in rows}

\* C39: the table changes only when a signup, change_password, change_email
\* or delete_user commits, and then every row with another mail than the
\* one the call names stays as it is, in every column; a row that is new or
\* changed is the call's own; an account appears only by a signup that
\* succeeds and disappears only by a delete_user that succeeds.
C39_OnlyTheNamedAccount ==
    [][userAuth' # userAuth
       => \E i \in Running :
             LET c == calls[i]
                 done == Committed(c)
             IN  /\ c.pc = "commit"
                 /\ calls' = [calls EXCEPT ![i] = done]
                 /\ c.op \in {"signup", "change_password", "change_email",
                              "delete_user"}
                 /\ ServiceResult(done).success
                 /\ \A r \in userAuth : r.mail # c.mail => r \in userAuth'
                 /\ \A r \in userAuth' \ userAuth :
                       /\ r.userId = c.wr.key
                       /\ r.mail = (IF c.op = "change_email" THEN c.newmail
                                    ELSE c.mail)
                 /\ Ids(userAuth') \ Ids(userAuth) # {} => c.op = "signup"
                 /\ Ids(userAuth) \ Ids(userAuth') # {} => c.op = "delete_user"]_vars

\* a write on one account has committed beside another account
C39_Witness ==
    \E i \in Finished :
        /\ calls[i].wrote \in {"update", "delete"}
        /\ \E r \in userAuth :
              /\ r.mail \notin {calls[i].mail, calls[i].newmail}
              /\ r \in base

====
